---- MODULE Spec2Model ----
(***************************************************************************)
(* Report generation service of report_srv: the report entity and its      *)
(* status state machine (internal/models/report.go), the report service,   *)
(* the GORM repository and the background task processor                   *)
(* (internal/service/report.go).                                           *)
(*                                                                         *)
(* Strings are sequences of characters; "a" stands for any non-blank       *)
(* character and " " for white space.  Timestamps are readings of the      *)
(* clock `now`; 0 is the nil / zero time.                                   *)
(***************************************************************************)
EXTENDS Integers, Sequences, FiniteSets, TLC

\* ------------------------------------------------------------------ bounds
\* ids the repository may assign (primary keys 1..MaxReports)
MaxReports == 2
\* concurrent callers of the service (HTTP request goroutines)
NumClients == 2
\* capacity of the task channel, make(chan Task, 100) scaled down
QueueCap == 1
\* capacity of the task channel where tasks are to wait behind each other
WideQueueCap == 2
\* readings of the wall clock
MaxTime == 2
\* reports created in the runs of Spec, where every service call races
RaceReports == 1

\* ------------------------------------------------------- program constants
MaxTitleLen == 255
MaxDescriptionLen == 1000
MaxUserLen == 255
MaxFileKeyLen == 255
MaxS3KeyLen == 1024
DefaultMaxRetries == 3

\* ------------------------------------------------------------------ strings
Str(n) == [i \in 1..n |-> "a"]

RECURSIVE TrimLeft(_)
TrimLeft(s) == IF s # <<>> /\ Head(s) = " " THEN TrimLeft(Tail(s)) ELSE s

RECURSIVE TrimRight(_)
TrimRight(s) ==
    IF s # <<>> /\ s[Len(s)] = " " THEN TrimRight(SubSeq(s, 1, Len(s) - 1)) ELSE s

\* strings.TrimSpace
TrimSpace(s) == TrimRight(TrimLeft(s))

\* ------------------------------------------------------------ ReportStatus
StatusPending == "pending"
StatusProcessing == "processing"
StatusCompleted == "completed"
StatusFailed == "failed"
StatusCanceled == "canceled"

Statuses == {StatusPending, StatusProcessing, StatusCompleted, StatusFailed, StatusCanceled}

\* values of type ReportStatus a caller can pass: the five constants, the
\* zero value "" and a string that is none of them
AnyStatus == Statuses \cup {"", "archived"}

\* ReportStatus.IsValid
IsValid(s) == s \in {StatusPending, StatusProcessing, StatusCompleted, StatusFailed, StatusCanceled}

transitions ==
    [s \in Statuses |->
        CASE s = StatusPending    -> {StatusProcessing, StatusCanceled}
          [] s = StatusProcessing -> {StatusCompleted, StatusFailed, StatusCanceled}
          [] s = StatusCompleted  -> {}
          [] s = StatusFailed     -> {StatusPending}
          [] s = StatusCanceled   -> {StatusPending}]

CanTransitionToLoose(s, newStatus) ==
    IF s \notin DOMAIN transitions THEN FALSE
    ELSE newStatus \in transitions[s] \cup {StatusPending}

CanTransitionToCancelAlways(s, newStatus) ==
    IF s \notin DOMAIN transitions THEN FALSE
    ELSE newStatus \in transitions[s] \cup {StatusCanceled}

\* ReportStatus.CanTransitionTo
CanTransitionTo(s, newStatus) ==
    IF s \notin DOMAIN transitions THEN FALSE
    ELSE newStatus \in transitions[s]

\* ------------------------------------------------------------ Report entity
\* The fields of models.Report the operations below read or write.
NewReport(title, description, status, fileKey, createdBy, updatedBy) ==
    [ID |-> 0, Title |-> title, Description |-> description, Status |-> status,
     FileKey |-> fileKey, GeneratedAt |-> 0, UpdatedAt |-> 0,
     CreatedBy |-> createdBy, UpdatedBy |-> updatedBy]

ErrNone == "nil"
ErrInvalidStatus == "invalid_status"
ErrInvalidTransition == "invalid_transition"

SetStatusTransitionFirst(r, status, updatedBy, t) ==
    IF ~CanTransitionTo(r.Status, status)
    THEN [report |-> r, err |-> ErrInvalidTransition]
    ELSE IF ~IsValid(status) THEN [report |-> r, err |-> ErrInvalidStatus]
    ELSE [report |-> [r EXCEPT !.Status = status,
                               !.UpdatedBy = TrimSpace(updatedBy),
                               !.UpdatedAt = t,
                               !.GeneratedAt =
                                   IF status = StatusCompleted /\ @ = 0 THEN t ELSE @],
          err |-> ErrNone]

SetStatusStampsFirst(r, status, updatedBy, t) ==
    LET stamped == [r EXCEPT !.UpdatedBy = TrimSpace(updatedBy), !.UpdatedAt = t]
    IN IF ~IsValid(status) THEN [report |-> stamped, err |-> ErrInvalidStatus]
       ELSE IF ~CanTransitionTo(r.Status, status)
       THEN [report |-> stamped, err |-> ErrInvalidTransition]
       ELSE [report |-> [stamped EXCEPT !.Status = status,
                                        !.GeneratedAt =
                                            IF status = StatusCompleted /\ @ = 0 THEN t ELSE @],
             err |-> ErrNone]

\* Report.SetStatus called at time t: the report afterwards and the error
SetStatus(r, status, updatedBy, t) ==
    IF ~IsValid(status) THEN [report |-> r, err |-> ErrInvalidStatus]
    ELSE IF ~CanTransitionTo(r.Status, status)
    THEN [report |-> r, err |-> ErrInvalidTransition]
    ELSE [report |-> [r EXCEPT !.Status = status,
                               !.UpdatedBy = TrimSpace(updatedBy),
                               !.UpdatedAt = t,
                               !.GeneratedAt =
                                   IF status = StatusCompleted /\ @ = 0 THEN t ELSE @],
          err |-> ErrNone]

\* Report.HasFile
HasFile(r) == r.FileKey # <<>>

IsCompletedOrHasFile(r) == r.Status = StatusCompleted \/ r.FileKey # <<>>

\* Report.IsCompleted
IsCompleted(r) == r.Status = StatusCompleted

ValidateNoStatus(r) ==
    ~ \/ TrimSpace(r.Title) = <<>>
      \/ Len(r.Title) > MaxTitleLen
      \/ Len(r.Description) > MaxDescriptionLen
      \/ TrimSpace(r.CreatedBy) = <<>>
      \/ Len(r.CreatedBy) > MaxUserLen
      \/ TrimSpace(r.UpdatedBy) = <<>>
      \/ Len(r.UpdatedBy) > MaxUserLen
      \/ Len(r.FileKey) > MaxFileKeyLen

\* Report.Validate: TRUE when no error is collected
Validate(r) ==
    ~ \/ TrimSpace(r.Title) = <<>>
      \/ Len(r.Title) > MaxTitleLen
      \/ Len(r.Description) > MaxDescriptionLen
      \/ ~IsValid(r.Status)
      \/ TrimSpace(r.CreatedBy) = <<>>
      \/ Len(r.CreatedBy) > MaxUserLen
      \/ TrimSpace(r.UpdatedBy) = <<>>
      \/ Len(r.UpdatedBy) > MaxUserLen
      \/ Len(r.FileKey) > MaxFileKeyLen

\* Report.BeforeCreate at time t: the report as inserted, and whether the
\* hook's Validate accepted it
BeforeCreate(r, t) ==
    LET r1 == [r EXCEPT !.UpdatedAt = t,
                        !.Status = IF @ = "" THEN StatusPending ELSE @]
    IN [report |-> r1, ok |-> Validate(r1)]


\* --------------------------------------------------------------- identifiers
IDs == 1..MaxReports
Clients == 1..NumClients
Times == 1..MaxTime

\* no row with that id (never inserted, or deleted)
NoRow == [Status |-> "no_row"]

\* fmt.Sprintf("report_%d", report.ID) in CreateReport
CreateTaskID(id) == <<"report_", id>>

CancelTaskIDOther(id) == <<"report-", id>>

\* fmt.Sprintf("report_%d", id) in CancelReportGeneration
CancelTaskID(id) == <<"report_", id>>

\* ReportFileStorageImpl.GenerateKey: "reports/<id>/<title>_<time>.xlsx";
\* one key per report, since a report has one generation task
GenerateKey(id) == <<"reports/", id>>

\* the Task value CreateReport builds
NewTask(id) == [ID |-> CreateTaskID(id), Type |-> "report_generation", Data |-> id]

\* --------------------------------------------------- inputs of CreateReport
ValidReport == NewReport(<<"a">>, <<"a">>, StatusPending, <<>>, <<"a">>, <<"a">>)

CreateInputs ==
    [valid        |-> ValidReport,
     noStatus     |-> [ValidReport EXCEPT !.Status = ""],
     badStatus    |-> [ValidReport EXCEPT !.Status = "archived"],
     emptyTitle   |-> [ValidReport EXCEPT !.Title = <<>>],
     blankTitle   |-> [ValidReport EXCEPT !.Title = <<" ", " ">>],
     longTitle    |-> [ValidReport EXCEPT !.Title = Str(MaxTitleLen + 1)],
     longDesc     |-> [ValidReport EXCEPT !.Description = Str(MaxDescriptionLen + 1)],
     noCreatedBy  |-> [ValidReport EXCEPT !.CreatedBy = <<>>],
     longCreatedBy|-> [ValidReport EXCEPT !.CreatedBy = Str(MaxUserLen + 1)],
     noUpdatedBy  |-> [ValidReport EXCEPT !.UpdatedBy = <<>>],
     blankUser    |-> [ValidReport EXCEPT !.CreatedBy = <<" ">>, !.UpdatedBy = <<" ">>],
     longUpdatedBy|-> [ValidReport EXCEPT !.UpdatedBy = Str(MaxUserLen + 1)],
     maximal      |-> [ValidReport EXCEPT !.Title = Str(MaxTitleLen),
                                          !.Description = Str(MaxDescriptionLen),
                                          !.CreatedBy = Str(MaxUserLen),
                                          !.UpdatedBy = Str(MaxUserLen)]]

\* --------------------------------------------------------------------- state
VARIABLES
    repo,             \* reports table: id -> row, or NoRow
    nextID,           \* next primary key the table assigns
    tasks,            \* SyncBackgroundProcessor.tasks, the buffered channel
    cancellations,    \* SyncBackgroundProcessor.cancellations: task id -> executor
    exec,             \* per executor, the goroutine running processTask for a task
    files,            \* keys present in the file storage
    svcCancellations, \* ReportServiceImpl.cancellations: report ids with a cancel func
    cl,               \* per client, the service call in progress
    now,              \* wall clock
    entity,           \* a Report value on which SetStatus is called directly
    setStatusCall,    \* history: arguments and outcome of the last direct SetStatus call
    mw,               \* the storage, its files and the call in progress on it
    capacity          \* cap(p.tasks), set when the processor is constructed

vars == <<repo, nextID, tasks, cancellations, exec, files, svcCancellations,
          cl, now, entity, setStatusCall, mw, capacity>>

svcVars == <<repo, nextID, tasks, cancellations, exec, files, svcCancellations,
             cl>>

entVars == <<entity, setStatusCall>>


\* ---------------------------------------------------------------- repository
\* models.NewJSON(): the empty JSON object
NewJSON == "{}"

\* the columns of a reports row that the service and the executor use
\* (Parameters is nil in every report passed to CreateReport, and BeforeCreate
\* then stores NewJSON())
Row(r) ==
    [Status |-> r.Status, FileKey |-> r.FileKey, GeneratedAt |-> r.GeneratedAt,
     Parameters |-> NewJSON]

HasRow(id) == repo[id] # NoRow

UpdateStatusStampAlways(rows, id, status, fileKey, t) ==
    IF rows[id] = NoRow THEN rows
    ELSE [rows EXCEPT ![id] =
            [@ EXCEPT !.Status = status,
                      !.FileKey = IF fileKey # <<>> THEN fileKey ELSE @,
                      !.GeneratedAt = t]]

UpdateStatusDropsKey(rows, id, status, fileKey, t) ==
    IF rows[id] = NoRow THEN rows
    ELSE [rows EXCEPT ![id] =
            [@ EXCEPT !.Status = status,
                      !.GeneratedAt = IF status = StatusCompleted THEN t ELSE @]]

\* GormReportRepository.UpdateStatus at time t with a live context: the table
\* afterwards (UPDATE ... WHERE id = ? changes no row when the id is absent)
UpdateStatus(rows, id, status, fileKey, t) ==
    IF rows[id] = NoRow THEN rows
    ELSE [rows EXCEPT ![id] =
            [@ EXCEPT !.Status = status,
                      !.FileKey = IF fileKey # <<>> THEN fileKey ELSE @,
                      !.GeneratedAt = IF status = StatusCompleted THEN t ELSE @]]

\* the map UpdateReport builds, lines 269-288: status = "none" and
\* parameters = <<>> stand for a nil pointer in the params, <<p>> for a
\* pointer to p
Updates(status, parameters) == [status |-> status, parameters |-> parameters]

UpdateStatusColumnOnly(rows, id, updates) ==
    IF rows[id] = NoRow THEN rows
    ELSE [rows EXCEPT ![id] =
            [@ EXCEPT !.Status = IF updates.status # "none" THEN updates.status ELSE @]]

\* GormReportRepository.Update with a live context: the columns named in the
\* map are written in one UPDATE statement
Update(rows, id, updates) ==
    IF rows[id] = NoRow THEN rows
    ELSE [rows EXCEPT ![id] =
            [@ EXCEPT !.Status = IF updates.status # "none" THEN updates.status ELSE @,
                      !.Parameters = IF updates.parameters # <<>>
                                     THEN updates.parameters[1] ELSE @]]


\* --------------------------------------------------------------- service calls
ErrValidation == "validation"
ErrCreate == "create_error"
ErrGet == "get_error"
ErrNotFound == "not_found"
ErrQueueFull == "queue_full"
ErrContext == "context_canceled"
ErrUpdate == "update_error"
ErrDelete == "delete_error"
ErrNotReady == "not_ready"
ErrFileMissing == "file_missing"
ErrGetFile == "get_file_error"

NoReport == [ID |-> 0, Status |-> ""]

IdleClient ==
    [pc |-> "idle", op |-> "none", id |-> 0, arg |-> "none", read |-> "",
     ctxDone |-> FALSE, err |-> ErrNone, out |-> NoReport, sent |-> <<>>,
     parameters |-> <<>>]

\* the call of client c returns err to its caller, who still holds the
\* arguments of a CreateReport or a SetStatus
Return(c, call, err) ==
    cl' = [cl EXCEPT ![c] =
              [call EXCEPT !.pc = "returned", !.err = err, !.read = "",
                           !.ctxDone = FALSE,
                           !.arg = IF call.op \in {"create", "set_status"} THEN @
                                   ELSE "none"]]

Goto(c, call, pc) == cl' = [cl EXCEPT ![c] = [call EXCEPT !.pc = pc]]

\* ReportServiceImpl.cancelGeneration: LoadAndDelete on the service's own map
cancelGeneration(id) == svcCancellations' = svcCancellations \ {id}

\* CreateReport, lines 175-187: Validate, then repository.Create (which runs
\* the BeforeCreate hook and assigns the id); done = the request context is
\* already cancelled when Create is called
CreateReport(c, in, done) ==
    /\ cl[c].pc = "idle"
    /\ LET call == [IdleClient EXCEPT !.op = "create", !.arg = in, !.ctxDone = done]
           r == CreateInputs[in]
           hook == BeforeCreate(r, now)
       IN IF ~Validate(r)
          THEN /\ Return(c, call, ErrValidation)
               /\ UNCHANGED <<repo, nextID>>
          ELSE IF done \/ ~hook.ok
          THEN /\ Return(c, call, ErrCreate)
               /\ UNCHANGED <<repo, nextID>>
          ELSE /\ nextID <= MaxReports
               /\ repo' = [repo EXCEPT ![nextID] = Row(hook.report)]
               /\ nextID' = nextID + 1
               /\ Goto(c, [call EXCEPT !.id = nextID,
                                       !.out = [ID |-> nextID,
                                                Status |-> hook.report.Status]],
                       "create_submit")
    /\ UNCHANGED <<tasks, cancellations, exec, files, svcCancellations,
                   now, entVars, mw, capacity>>

\* SyncBackgroundProcessor.SubmitTask called by CreateReport, lines 189-198:
\* the select sends when the channel has room, returns ctx.Err() when the
\* context is done (either, when both are ready) and otherwise takes default
CreateReport_SubmitTask(c) ==
    /\ cl[c].pc = "create_submit"
    /\ \/ /\ Len(tasks) < capacity
          /\ tasks' = Append(tasks, NewTask(cl[c].id))
          /\ Return(c, [cl[c] EXCEPT !.sent = Append(@, NewTask(cl[c].id))], ErrNone)
       \/ /\ cl[c].ctxDone
          /\ Goto(c, [cl[c] EXCEPT !.err = ErrContext], "create_failed")
          /\ UNCHANGED tasks
       \/ /\ ~cl[c].ctxDone
          /\ Len(tasks) >= capacity
          /\ Goto(c, [cl[c] EXCEPT !.err = ErrQueueFull], "create_failed")
          /\ UNCHANGED tasks
    /\ UNCHANGED <<repo, nextID, cancellations, exec, files, svcCancellations,
                   now, entVars, mw, capacity>>

\* CreateReport, lines 199-202: updateReportStatus(ctx, id, StatusFailed, "")
\* with its error dropped, then the SubmitTask error is returned
CreateReport_MarkFailed(c) ==
    /\ cl[c].pc = "create_failed"
    /\ IF cl[c].ctxDone
       THEN UNCHANGED repo
       ELSE /\ repo' = UpdateStatus(repo, cl[c].id, StatusFailed, <<>>, now)
    /\ Return(c, cl[c], cl[c].err)
    /\ UNCHANGED <<nextID, tasks, cancellations, exec, files, svcCancellations,
                   now, entVars, mw, capacity>>

\* UpdateReport, lines 259-294: GetByID, the transition check and, for a
\* change to canceled, cancelGeneration.  st = "none": no status in the patch;
\* parameters = <<>>: no parameters in the patch
UpdateReport(c, id, st, parameters) ==
    /\ cl[c].pc = "idle"
    /\ LET call == [IdleClient EXCEPT !.op = "update", !.id = id, !.arg = st,
                                      !.parameters = parameters]
       IN IF ~HasRow(id)
          THEN Return(c, call, ErrNotFound) /\ UNCHANGED svcCancellations
          ELSE IF st # "none" /\ ~CanTransitionTo(repo[id].Status, st)
          THEN /\ Return(c, [call EXCEPT !.read = repo[id].Status], ErrInvalidTransition)
               /\ UNCHANGED svcCancellations
          ELSE /\ Goto(c, [call EXCEPT !.read = repo[id].Status], "update_write")
               /\ IF st = StatusCanceled THEN cancelGeneration(id)
                                         ELSE UNCHANGED svcCancellations
    /\ UNCHANGED <<repo, nextID, tasks, cancellations, exec, files,
                   now, entVars, mw, capacity>>

\* UpdateReport, lines 296-302: repository.Update
UpdateReport_Update(c) ==
    /\ cl[c].pc = "update_write"
    /\ IF cl[c].ctxDone
       THEN Return(c, cl[c], ErrUpdate) /\ UNCHANGED repo
       ELSE /\ repo' = Update(repo, cl[c].id, Updates(cl[c].arg, cl[c].parameters))
            /\ Return(c, cl[c], ErrNone)
    /\ UNCHANGED <<nextID, tasks, cancellations, exec, files, svcCancellations,
                   now, entVars, mw, capacity>>


\* SyncBackgroundProcessor.CancelTask: whether the registry holds taskID
CancelTaskFinds(taskID) == taskID \in DOMAIN cancellations

CancelTaskNoop(taskID) == exec

\* SyncBackgroundProcessor.CancelTask: the executors after the stored cancel
\* function, if any, has been called
CancelTask(taskID) ==
    IF taskID \in DOMAIN cancellations
    THEN [exec EXCEPT ![cancellations[taskID]].ctxDone = TRUE]
    ELSE exec

\* CancelReportGeneration, lines 344-356: GetByID and the transition check
CancelReportGeneration(c, id) ==
    /\ cl[c].pc = "idle"
    /\ LET call == [IdleClient EXCEPT !.op = "cancel", !.id = id]
       IN IF ~HasRow(id) THEN Return(c, call, ErrNotFound)
          ELSE IF ~CanTransitionTo(repo[id].Status, StatusCanceled)
          THEN Return(c, [call EXCEPT !.read = repo[id].Status], ErrInvalidTransition)
          ELSE Goto(c, [call EXCEPT !.read = repo[id].Status], "cancel_task")
    /\ UNCHANGED <<repo, nextID, tasks, cancellations, exec, files, svcCancellations,
                   now, entVars, mw, capacity>>

\* CancelReportGeneration, lines 358-365: processor.CancelTask (an error is
\* only logged), then cancelGeneration
CancelReportGeneration_CancelTask(c) ==
    /\ cl[c].pc = "cancel_task"
    /\ exec' = CancelTask(CancelTaskID(cl[c].id))
    /\ cancelGeneration(cl[c].id)
    /\ Goto(c, [cl[c] EXCEPT !.sent = <<CancelTaskID(cl[c].id)>>,
                              !.arg = IF CancelTaskFinds(CancelTaskID(cl[c].id))
                                      THEN "task_canceled" ELSE "task_not_found"],
            "cancel_write")
    /\ UNCHANGED <<repo, nextID, tasks, cancellations, files, now, entVars, mw, capacity>>

\* CancelReportGeneration, lines 367-373: updateReportStatus(StatusCanceled)
CancelReportGeneration_UpdateStatus(c) ==
    /\ cl[c].pc = "cancel_write"
    /\ IF cl[c].ctxDone
       THEN Return(c, cl[c], ErrUpdate) /\ UNCHANGED repo
       ELSE /\ repo' = UpdateStatus(repo, cl[c].id, StatusCanceled, <<>>, now)
            /\ Return(c, cl[c], ErrNone)
    /\ UNCHANGED <<nextID, tasks, cancellations, exec, files, svcCancellations,
                   now, entVars, mw, capacity>>

\* DeleteReport, lines 309-319: GetByID, then cancelGeneration
DeleteReport(c, id) ==
    /\ cl[c].pc = "idle"
    /\ LET call == [IdleClient EXCEPT !.op = "delete", !.id = id]
       IN IF ~HasRow(id) THEN Return(c, call, ErrNotFound) /\ UNCHANGED svcCancellations
          ELSE /\ cancelGeneration(id)
               /\ Goto(c, [call EXCEPT !.read = repo[id].Status,
                                       !.arg = repo[id].FileKey,
                                       !.out = [file |-> "none",
                                                status |-> repo[id].Status,
                                                key |-> repo[id].FileKey]],
                       IF HasFile(repo[id]) THEN "delete_file" ELSE "delete_row")
    /\ UNCHANGED <<repo, nextID, tasks, cancellations, exec, files,
                   now, entVars, mw, capacity>>

DeleteReport_DeleteFileStrict(c) ==
    /\ cl[c].pc = "delete_file"
    /\ \E ok \in BOOLEAN :
          IF ok THEN /\ files' = files \ {cl[c].arg}
                     /\ Goto(c, [cl[c] EXCEPT !.out.file = "deleted"], "delete_row")
                ELSE /\ files' = files
                     /\ Return(c, [cl[c] EXCEPT !.out.file = "delete_failed"], ErrDelete)
    /\ UNCHANGED <<repo, nextID, tasks, cancellations, exec, svcCancellations,
                   now, entVars, mw, capacity>>

\* DeleteReport, lines 321-328: fileStorage.Delete, whose error is only logged;
\* out keeps the status and the file key GetByID returned and what the log says
DeleteReport_DeleteFile(c) ==
    /\ cl[c].pc = "delete_file"
    /\ \E ok \in BOOLEAN :
          /\ files' = IF ok THEN files \ {cl[c].arg} ELSE files
          /\ Goto(c, [cl[c] EXCEPT !.out.file = IF ok THEN "deleted" ELSE "delete_failed"],
                  "delete_row")
    /\ UNCHANGED <<repo, nextID, tasks, cancellations, exec, svcCancellations,
                   now, entVars, mw, capacity>>

DeleteReport_DeleteRowKeepsRow(c) ==
    /\ cl[c].pc = "delete_row"
    /\ Return(c, cl[c], IF cl[c].ctxDone THEN ErrDelete ELSE ErrNone)
    /\ UNCHANGED <<repo, nextID, tasks, cancellations, exec, files, svcCancellations,
                   now, entVars, mw, capacity>>

\* DeleteReport, lines 330-337: repository.Delete
DeleteReport_DeleteRow(c) ==
    /\ cl[c].pc = "delete_row"
    /\ IF cl[c].ctxDone
       THEN Return(c, cl[c], ErrDelete) /\ UNCHANGED repo
       ELSE /\ repo' = [repo EXCEPT ![cl[c].id] = NoRow]
            /\ Return(c, cl[c], ErrNone)
    /\ UNCHANGED <<nextID, tasks, cancellations, exec, files, svcCancellations,
                   now, entVars, mw, capacity>>

\* GetReportFile, lines 378-392: GetByID, then the checks on the status and on
\* the file key
GetReportFile(c, id) ==
    /\ cl[c].pc = "idle"
    /\ LET call == [IdleClient EXCEPT !.op = "get_file", !.id = id]
       IN IF ~HasRow(id) THEN Return(c, call, ErrNotFound)
          ELSE LET got == [call EXCEPT !.out = [status |-> repo[id].Status,
                                                key |-> repo[id].FileKey,
                                                reader |-> <<>>]]
               IN IF ~IsCompleted(repo[id]) THEN Return(c, got, ErrNotReady)
                  ELSE IF ~HasFile(repo[id]) THEN Return(c, got, ErrFileMissing)
                  ELSE Goto(c, [got EXCEPT !.arg = repo[id].FileKey], "get_file")
    /\ UNCHANGED <<repo, nextID, tasks, cancellations, exec, files, svcCancellations,
                   now, entVars, mw, capacity>>

\* GetReportFile, lines 394-402: fileStorage.Get(report.FileKey), which fails
\* when the storage has no file under the key and may fail otherwise; on
\* success the caller gets the reader of that file
GetReportFile_Get(c) ==
    /\ cl[c].pc = "get_file"
    /\ \E ok \in BOOLEAN :
          IF ok /\ cl[c].arg \in files
          THEN Return(c, [cl[c] EXCEPT !.out.reader = cl[c].arg], ErrNone)
          ELSE Return(c, cl[c], ErrGetFile)
    /\ UNCHANGED <<repo, nextID, tasks, cancellations, exec, files, svcCancellations,
                   now, entVars, mw, capacity>>

\* the Report value GetByID builds from a row; the audit columns are not
\* kept in the rows of this model
Loaded(id) ==
    [ID |-> id, Status |-> repo[id].Status, FileKey |-> repo[id].FileKey,
     GeneratedAt |-> repo[id].GeneratedAt, UpdatedAt |-> 0, UpdatedBy |-> <<>>]

\* ReportHandler.updateReportStatus: GetReport, then SetStatus on the loaded
\* entity, which is returned to the caller and not persisted
HandlerUpdateReportStatus(c, id, st, by) ==
    /\ cl[c].pc = "idle"
    /\ LET call == [IdleClient EXCEPT !.op = "set_status", !.id = id, !.arg = st]
       IN IF ~HasRow(id) THEN Return(c, call, ErrNotFound)
          ELSE LET res == SetStatus(Loaded(id), st, by, now)
               IN Return(c, [call EXCEPT !.read = repo[id].Status,
                                               !.out = [before |-> repo[id],
                                                        after |-> Row(res.report),
                                                        at |-> now]],
                         res.err)
    /\ UNCHANGED <<repo, nextID, tasks, cancellations, exec, files, svcCancellations,
                   now, entVars, mw, capacity>>

\* the request context of a call in progress is cancelled (client went away)
RequestCanceled(c) ==
    /\ cl[c].pc \notin {"idle", "returned"}
    /\ ~cl[c].ctxDone
    /\ cl' = [cl EXCEPT ![c].ctxDone = TRUE]
    /\ UNCHANGED <<repo, nextID, tasks, cancellations, exec, files, svcCancellations,
                   now, entVars, mw, capacity>>

\* the caller has taken the result; the goroutine serves the next request
NextRequest(c) ==
    /\ cl[c].pc = "returned"
    /\ cl' = [cl EXCEPT ![c] = IdleClient]
    /\ UNCHANGED <<repo, nextID, tasks, cancellations, exec, files, svcCancellations,
                   now, entVars, mw, capacity>>


\* -------------------------------------------------- background task processor
\* no task: the zero Task
NoTask == [ID |-> <<>>, Type |-> "", Data |-> 0]

\* task.Data.(uint) succeeds; a payload of another type is written -1
IsUint(data) == data >= 0

\* no goroutine was started for the task, pc = "none"; otherwise the task of
\* the goroutine, its position and whether its context is done
NoExec == [pc |-> "none", ctxDone |-> FALSE, task |-> NoTask]

\* cancellations.Store(taskID, cancel) where cancel belongs to executor e
Store(taskID, e) ==
    [t \in DOMAIN cancellations \cup {taskID} |->
        IF t = taskID THEN e ELSE cancellations[t]]

DeleteNothing(taskID) == cancellations

\* cancellations.Delete(taskID)
Delete(taskID) == [t \in DOMAIN cancellations \ {taskID} |-> cancellations[t]]

ExecGoto(id, pc) == exec' = [exec EXCEPT ![id].pc = pc]

\* processReportGeneration, line 762: the report id in the payload of the task
\* that executor e runs
reportID(e) == exec[e].task.Data

\* the executor the goroutine of a task is in the model: the one numbered like
\* the id of the task, or a free one when that one runs a task already
Slot(task) ==
    IF exec[task.ID[2]].pc = "none" THEN task.ID[2]
    ELSE CHOOSE e \in IDs : exec[e].pc = "none"

StartNewestFirst ==
    /\ tasks # <<>>
    /\ \E e \in IDs : exec[e].pc = "none"
    /\ exec' = [exec EXCEPT ![Slot(tasks[Len(tasks)])] =
                    [pc |-> "store", ctxDone |-> FALSE, task |-> tasks[Len(tasks)]]]
    /\ tasks' = SubSeq(tasks, 1, Len(tasks) - 1)
    /\ UNCHANGED <<repo, nextID, cancellations, files, svcCancellations, cl,
                   now, entVars, mw, capacity>>

\* SyncBackgroundProcessor.Start: receive a task and start a goroutine for it;
\* processTask, line 745, derives the context of that goroutine.  The model
\* has one executor for each task it lets be submitted
Start ==
    /\ tasks # <<>>
    /\ \E e \in IDs : exec[e].pc = "none"
    /\ exec' = [exec EXCEPT ![Slot(Head(tasks))] =
                    [pc |-> "store", ctxDone |-> FALSE, task |-> Head(tasks)]]
    /\ tasks' = Tail(tasks)
    /\ UNCHANGED <<repo, nextID, cancellations, files, svcCancellations, cl,
                   now, entVars, mw, capacity>>

\* processTask, lines 749-757: cancellations.Store(task.ID, cancel), then the
\* switch on task.Type; processReportGeneration, lines 762-766: task.Data.(uint)
processTask_Store(id) ==
    /\ exec[id].pc = "store"
    /\ cancellations' = Store(exec[id].task.ID, id)
    /\ IF exec[id].task.Type # "report_generation" THEN ExecGoto(id, "cleanup")
       ELSE IF ~IsUint(exec[id].task.Data) THEN ExecGoto(id, "cleanup")
       ELSE ExecGoto(id, "set_processing")
    /\ UNCHANGED <<repo, nextID, tasks, files, svcCancellations, cl,
                   now, entVars, mw, capacity>>

\* processReportGeneration, lines 770-774: UpdateStatus(StatusProcessing)
processReportGeneration_Processing(id) ==
    /\ exec[id].pc = "set_processing"
    /\ IF exec[id].ctxDone
       THEN ExecGoto(id, "cleanup") /\ UNCHANGED repo
       ELSE /\ repo' = UpdateStatus(repo, reportID(id), StatusProcessing, <<>>, now)
            /\ ExecGoto(id, "get")
    /\ UNCHANGED <<nextID, tasks, cancellations, files, svcCancellations, cl,
                   now, entVars, mw, capacity>>

\* processReportGeneration, lines 776-782: GetByID
processReportGeneration_GetByID(id) ==
    /\ exec[id].pc = "get"
    /\ IF exec[id].ctxDone \/ ~HasRow(reportID(id))
       THEN ExecGoto(id, "set_failed")
       ELSE ExecGoto(id, "generate")
    /\ UNCHANGED <<repo, nextID, tasks, cancellations, files, svcCancellations, cl,
                   now, entVars, mw, capacity>>

\* processReportGeneration, lines 784-790: generator.Generate, which may fail
\* (ExcelReportGenerator does not look at the context)
processReportGeneration_Generate(id) ==
    /\ exec[id].pc = "generate"
    /\ \E ok \in BOOLEAN : ExecGoto(id, IF ok THEN "save" ELSE "set_failed")
    /\ UNCHANGED <<repo, nextID, tasks, cancellations, files, svcCancellations, cl,
                   now, entVars, mw, capacity>>

\* processReportGeneration, lines 792-800: GenerateKey and fileStorage.Save,
\* which may fail; the backends differ in whether a done context stops the write
processReportGeneration_Save(id) ==
    /\ exec[id].pc = "save"
    /\ \E ok \in BOOLEAN :
          IF ok THEN /\ files' = files \cup {GenerateKey(reportID(id))}
                     /\ ExecGoto(id, "set_completed")
                ELSE UNCHANGED files /\ ExecGoto(id, "set_failed")
    /\ UNCHANGED <<repo, nextID, tasks, cancellations, svcCancellations, cl,
                   now, entVars, mw, capacity>>

\* processReportGeneration, lines 802-806: UpdateStatus(StatusCompleted, fileKey)
processReportGeneration_Completed(id) ==
    /\ exec[id].pc = "set_completed"
    /\ IF exec[id].ctxDone
       THEN UNCHANGED repo
       ELSE /\ repo' = UpdateStatus(repo, reportID(id), StatusCompleted,
                                      GenerateKey(reportID(id)), now)
    /\ ExecGoto(id, "cleanup")
    /\ UNCHANGED <<nextID, tasks, cancellations, files, svcCancellations, cl,
                   now, entVars, mw, capacity>>

\* processReportGeneration, lines 780, 788, 798: UpdateStatus(StatusFailed)
\* with its error dropped
processReportGeneration_Failed(id) ==
    /\ exec[id].pc = "set_failed"
    /\ IF exec[id].ctxDone
       THEN UNCHANGED repo
       ELSE /\ repo' = UpdateStatus(repo, reportID(id), StatusFailed, <<>>, now)
    /\ ExecGoto(id, "cleanup")
    /\ UNCHANGED <<nextID, tasks, cancellations, files, svcCancellations, cl,
                   now, entVars, mw, capacity>>

\* processTask, lines 746 and 750, deferred: cancellations.Delete and cancel()
processTask_Return(id) ==
    /\ exec[id].pc = "cleanup"
    /\ cancellations' = Delete(exec[id].task.ID)
    /\ exec' = [exec EXCEPT ![id].pc = "done", ![id].ctxDone = TRUE]
    /\ UNCHANGED <<repo, nextID, tasks, files, svcCancellations, cl,
                   now, entVars, mw, capacity>>

\* the deadline of the context derived with task.Timeout passes
Timeout(id) ==
    /\ exec[id].pc \notin {"none", "done"}
    /\ ~exec[id].ctxDone
    /\ exec' = [exec EXCEPT ![id].ctxDone = TRUE]
    /\ UNCHANGED <<repo, nextID, tasks, cancellations, files, svcCancellations, cl,
                   now, entVars, mw, capacity>>

\* time passes
Tick ==
    /\ now < MaxTime
    /\ now' = now + 1
    /\ UNCHANGED <<svcVars, entVars, mw, capacity>>

\* ------------------------------------------------- storage and its middleware
\* keys are strings of characters
KeyEmpty == <<>>
KeyValid == <<"a">>
KeyDotDot == <<".", ".", "/", "a">>
KeyMax == Str(MaxS3KeyLen)
KeyLong == Str(MaxS3KeyLen + 1)

KeyDotsInside == <<"a", ".", ".", "b">>

Keys == {KeyEmpty, KeyValid, KeyDotDot, KeyDotsInside, KeyMax, KeyLong}

\* strings.Contains(key, "..")
ContainsDotDot(key) == \E i \in 1..(Len(key) - 1) : key[i] = "." /\ key[i + 1] = "."

\* errors of a storage call: nil, a validation error, the error of the k-th
\* backend invocation, or ctx.Err()
StorageNil == [kind |-> "nil", at |-> 0]
ErrEmptyKey == [kind |-> "empty_key", at |-> 0]
ErrDotDotKey == [kind |-> "dotdot_key", at |-> 0]
ErrKeyTooLong == [kind |-> "key_too_long", at |-> 0]
ErrCtx == [kind |-> "context_canceled", at |-> 0]
BackendError(k) == [kind |-> "backend_error", at |-> k]

\* LocalStorage.ValidateKey
LocalStorage_ValidateKey(key) ==
    IF key = <<>> THEN ErrEmptyKey
    ELSE IF ContainsDotDot(key) THEN ErrDotDotKey
    ELSE StorageNil

S3Storage_ValidateKeyBelowLimit(key) ==
    IF key = <<>> THEN ErrEmptyKey
    ELSE IF Len(key) >= MaxS3KeyLen THEN ErrKeyTooLong
    ELSE StorageNil

\* S3Storage.ValidateKey
S3Storage_ValidateKey(key) ==
    IF key = <<>> THEN ErrEmptyKey
    ELSE IF Len(key) > MaxS3KeyLen THEN ErrKeyTooLong
    ELSE StorageNil

\* the backend's ValidateKey
Backend_ValidateKey(b, key) ==
    IF b = "local" THEN LocalStorage_ValidateKey(key) ELSE S3Storage_ValidateKey(key)

\* ValidationMiddleware.validateKey
validateKey(key) == IF key = <<>> THEN ErrEmptyKey ELSE StorageNil

\* the operations of Storage that take a context
Ops ==
    {"Save", "Get", "Delete", "Exists", "GetMetadata", "GetSize", "GetURL",
     "GetPresignedURL", "List", "Copy", "Move"}

\* the operations RetryMiddleware passes to retryOperation
RetriedOps == {"Save", "Get", "Delete"}

\* the operations LoggingMiddleware logs
LoggedOps == {"Save", "Get", "Delete"}

\* the operations with a source and a destination key
TwoKeyOps == {"Copy", "Move"}

\* ValidationMiddleware, lines 270-359: the check an operation makes before it
\* delegates; List takes a prefix and is not checked
ValidationMiddleware_Check(op, key, key2) ==
    IF op = "List" THEN StorageNil
    ELSE IF validateKey(key) # StorageNil THEN validateKey(key)
    ELSE IF op \in TwoKeyOps THEN validateKey(key2)
    ELSE StorageNil

\* a Storage value: its layers from the outermost to the backend, and the
\* maxRetries of its retry layer
Backends == {"local", "s3"}

\* the LocalStorage NewStorageFromConfig returns, and the operations of its
\* Storage interface
ConfigLocal == "config_local"
ConfigOps == {"Save", "Get", "Delete", "Exists"}

NewBackend(b) == [layers |-> <<b>>, maxRetries |-> 0]
NewLoggingMiddleware(storage) == [storage EXCEPT !.layers = <<"logging">> \o @]
NewRetryMiddleware(storage, maxRetries) ==
    [layers |-> <<"retry">> \o storage.layers, maxRetries |-> maxRetries]
NewValidationMiddleware(storage) == [storage EXCEPT !.layers = <<"validation">> \o @]

\* StorageBuilder.wrapWithMiddleware
wrapWithMiddleware(storage, hasLogger) ==
    LET logged == IF hasLogger THEN NewLoggingMiddleware(storage) ELSE storage
        retried == NewRetryMiddleware(logged, DefaultMaxRetries)
    IN NewValidationMiddleware(retried)

\* the backend of a storage, and the operations it has
BackendOf(storage) == storage.layers[Len(storage.layers)]
OpsOf(storage) == IF BackendOf(storage) = ConfigLocal THEN ConfigOps ELSE Ops

\* the storages calls are made on: those StorageBuilder.Build returns (its
\* logger is set), a retry middleware and a logging middleware put directly
\* on a backend, and the backends alone; maxRetries is an int
Storages ==
    {wrapWithMiddleware(NewBackend(b), TRUE) : b \in Backends}
    \cup {NewRetryMiddleware(NewBackend(b), m) :
              b \in Backends, m \in (-1)..DefaultMaxRetries}
    \cup {NewLoggingMiddleware(NewBackend(b)) : b \in Backends}
    \cup {NewBackend(b) : b \in Backends \cup {ConfigLocal}}

\* the content a caller passes to Save, in the pieces its reader gives out
Stream == <<"x", "y">>

\* the files of a backend: the content under each key that has one, <<>>
\* when there is no file
Put(store, key, content) ==
    [k \in DOMAIN store \cup {key} |-> IF k = key THEN content ELSE store[k]]
Remove(store, key) == [k \in DOMAIN store \ {key} |-> store[k]]

\* the backend operation fails whatever the state of the network or the disk
\* is: the file of the key does not exist, or the key names no file
Backend_Fails(b, op, key, key2, store) ==
    \/ op \in {"Save", "Copy", "Move"} /\ (IF op = "Save" THEN key ELSE key2) = <<>>
    \/ op \in {"Get", "GetMetadata", "GetSize", "Copy", "Move"} /\ key \notin DOMAIN store
    \/ op = "Delete" /\ b = ConfigLocal /\ key \notin DOMAIN store

\* <backend>.Save with the reader at position pos: the outcomes.  A Save that
\* fails has failed before the file was opened, or (LocalStorage) after the
\* file was truncated and some pieces were copied into it, or (S3Storage)
\* after PutObject read some pieces of the body
Backend_Save(b, store, key, pos, fails) ==
    LET rest == Len(Stream) - pos
        pieces(j) == SubSeq(Stream, pos + 1, pos + j)
    IN IF key = <<>> THEN {[store |-> store, pos |-> pos, val |-> <<>>, ok |-> FALSE]}
       ELSE IF ~fails
       THEN {[store |-> Put(store, key, pieces(rest)), pos |-> Len(Stream),
              val |-> <<>>, ok |-> TRUE]}
       ELSE {[store |-> store, pos |-> pos, val |-> <<>>, ok |-> FALSE]}
            \cup {[store |-> IF b = "s3" THEN store ELSE Put(store, key, pieces(j)),
                    pos |-> pos + j, val |-> <<>>, ok |-> FALSE] : j \in 0..rest}

\* <backend>.<op>: the outcomes of an invocation that the network or the disk
\* lets fail (fails) or not: the files afterwards, the position of the
\* reader, the value returned (the content of Get, the answer of Exists) and
\* whether the error is nil
Backend_Outcomes(b, op, key, key2, store, pos, fails) ==
    LET failed == {[store |-> store, pos |-> pos, val |-> <<>>, ok |-> FALSE]}
        done(st, val) == {[store |-> st, pos |-> pos, val |-> val, ok |-> TRUE]}
    IN IF op = "Save" THEN Backend_Save(b, store, key, pos, fails)
       ELSE IF fails \/ Backend_Fails(b, op, key, key2, store) THEN failed
       ELSE IF op = "Delete" THEN done(Remove(store, key), <<>>)
       ELSE IF op = "Get" THEN done(store, <<store[key]>>)
       ELSE IF op = "Exists" THEN done(store, <<key \in DOMAIN store>>)
       ELSE IF op = "Copy" THEN done(Put(store, key2, store[key]), <<>>)
       ELSE IF op = "Move"
       THEN done(IF b = "local" /\ key = key2 THEN store
                 ELSE Remove(Put(store, key2, store[key]), key), <<>>)
       ELSE done(store, <<>>)

\* no call in progress on storage s
IdleStorage(s) ==
    [storage |-> s, pc |-> "idle", op |-> "", key |-> <<>>, key2 |-> <<>>, n |-> 0,
     depth |-> 0, attempt |-> 0, calls |-> 0, delays |-> 0, validations |-> 0,
     logs |-> 0, entered |-> <<>>, ctxDone |-> FALSE, canceledIn |-> "",
     callsAtCancel |-> 0, err |-> StorageNil, val |-> <<>>, pos |-> 0,
     store |-> <<>>, storeAtCall |-> <<>>]

\* the layer control is in
Layer == mw.storage.layers[mw.depth]

\* control passes into the layer below; entered lists the layers in the order
\* in which the call reached them first
CallInner(m) ==
    [m EXCEPT !.depth = @ + 1, !.pc = "enter",
              !.entered = IF \E i \in 1..Len(@) : @[i] = m.storage.layers[m.depth]
                          THEN @ ELSE Append(@, m.storage.layers[m.depth])]

\* the layer returns err to the layer above, or to the caller
ReturnOuter(m, err) ==
    [m EXCEPT !.err = err, !.depth = @ - 1,
              !.pc = IF m.depth = 1 THEN "returned" ELSE "leave",
              !.entered = IF \E i \in 1..Len(@) : @[i] = m.storage.layers[m.depth]
                          THEN @ ELSE Append(@, m.storage.layers[m.depth])]

\* a caller calls op on the storage (Save with a reader at the start of
\* Stream); the network or the disk lets the backend invocations of this
\* call fail the first n times
Storage_Call(op, key, key2, n) ==
    /\ mw.pc = "idle"
    /\ op \in OpsOf(mw.storage)
    /\ mw' = [IdleStorage(mw.storage) EXCEPT !.pc = "enter", !.op = op, !.key = key,
                                             !.key2 = key2, !.n = n, !.depth = 1,
                                             !.store = mw.store,
                                             !.storeAtCall = mw.store]
    /\ UNCHANGED <<svcVars, now, entVars, capacity>>

\* ValidationMiddleware.<op>: validateKey, then the wrapped storage
ValidationMiddleware_Call ==
    /\ mw.pc = "enter"
    /\ Layer = "validation"
    /\ LET err == ValidationMiddleware_Check(mw.op, mw.key, mw.key2)
           m == [mw EXCEPT !.validations = @ + 1]
       IN mw' = IF err # StorageNil THEN ReturnOuter(m, err) ELSE CallInner(m)
    /\ UNCHANGED <<svcVars, now, entVars, capacity>>

\* ValidationMiddleware.<op>: the result of the wrapped storage is returned
ValidationMiddleware_Return ==
    /\ mw.pc = "leave"
    /\ Layer = "validation"
    /\ mw' = ReturnOuter(mw, mw.err)
    /\ UNCHANGED <<svcVars, now, entVars, capacity>>

\* LoggingMiddleware.<op>: the wrapped storage is called
LoggingMiddleware_Call ==
    /\ mw.pc = "enter"
    /\ Layer = "logging"
    /\ mw' = CallInner(mw)
    /\ UNCHANGED <<svcVars, now, entVars, capacity>>

LoggingMiddleware_ReturnLogsOnly ==
    /\ mw.pc = "leave"
    /\ Layer = "logging"
    /\ mw' = ReturnOuter([mw EXCEPT !.logs = IF mw.op \in LoggedOps THEN @ + 1 ELSE @],
                         IF mw.op \in LoggedOps THEN StorageNil ELSE mw.err)
    /\ UNCHANGED <<svcVars, now, entVars, capacity>>

\* LoggingMiddleware.Save, Get, Delete: the result is logged and returned;
\* the other operations return it
LoggingMiddleware_Return ==
    /\ mw.pc = "leave"
    /\ Layer = "logging"
    /\ mw' = ReturnOuter([mw EXCEPT !.logs = IF mw.op \in LoggedOps THEN @ + 1 ELSE @],
                         mw.err)
    /\ UNCHANGED <<svcVars, now, entVars, capacity>>

\* RetryMiddleware.<op>: retryOperation starts with attempt 0 and calls fn
\* when attempt <= maxRetries, and returns lastErr, which is nil, when not;
\* the operations that are not retried call the wrapped storage once
RetryMiddleware_Call ==
    /\ mw.pc = "enter"
    /\ Layer = "retry"
    /\ mw' = IF mw.op \in RetriedOps /\ ~(0 <= mw.storage.maxRetries)
             THEN ReturnOuter([mw EXCEPT !.attempt = 0], StorageNil)
             ELSE CallInner([mw EXCEPT !.attempt = 0])
    /\ UNCHANGED <<svcVars, now, entVars, capacity>>

RetryAfterDelayAlways(attempt, maxRetries, lastErr) ==
    IF lastErr = StorageNil THEN "return_nil"
    ELSE IF attempt <= maxRetries THEN "delay"
    ELSE "return_last"

\* retryOperation, lines 180-207: what the loop does after fn() returned
\* lastErr in the given attempt (shouldRetry is always true)
RetryAfter(attempt, maxRetries, lastErr) ==
    IF lastErr = StorageNil THEN "return_nil"
    ELSE IF attempt < maxRetries THEN "delay"
    ELSE "return_last"

\* RetryMiddleware: fn() has returned
RetryMiddleware_Return ==
    /\ mw.pc = "leave"
    /\ Layer = "retry"
    /\ IF mw.op \notin RetriedOps THEN mw' = ReturnOuter(mw, mw.err)
       ELSE LET next == RetryAfter(mw.attempt, mw.storage.maxRetries, mw.err)
            IN IF next = "delay"
               THEN mw' = [mw EXCEPT !.pc = "select", !.delays = @ + 1]
               ELSE mw' = ReturnOuter(mw, mw.err)
    /\ UNCHANGED <<svcVars, now, entVars, capacity>>

SelectTimerOnly(ctxDone) == {"timer"}

\* retryOperation, lines 198-203: the cases of the select that can be taken;
\* the goroutine blocked in the select is woken by whichever of ctx.Done()
\* and the timer of retryDelay comes first
Select(ctxDone) == IF ctxDone THEN {"ctx"} ELSE {"timer"}

\* RetryMiddleware: the select returns ctx.Err(), or the delay has passed and
\* the loop goes to the next attempt (after the last attempt, out of the loop)
RetryMiddleware_Select ==
    /\ mw.pc = "select"
    /\ \E case \in Select(mw.ctxDone) :
          IF case = "ctx" THEN mw' = ReturnOuter(mw, ErrCtx)
          ELSE IF mw.attempt < mw.storage.maxRetries
          THEN mw' = CallInner([mw EXCEPT !.attempt = @ + 1])
          ELSE mw' = ReturnOuter(mw, mw.err)
    /\ UNCHANGED <<svcVars, now, entVars, capacity>>

\* the backend operation is invoked, for the k-th time in this call
Backend_Call ==
    /\ mw.pc = "enter"
    /\ Layer \in Backends \cup {ConfigLocal}
    /\ LET k == mw.calls + 1
       IN \E o \in Backend_Outcomes(Layer, mw.op, mw.key, mw.key2, mw.store, mw.pos,
                                    k <= mw.n) :
             mw' = ReturnOuter([mw EXCEPT !.calls = k, !.store = o.store,
                                          !.pos = o.pos, !.val = o.val],
                               IF o.ok THEN StorageNil ELSE BackendError(k))
    /\ UNCHANGED <<svcVars, now, entVars, capacity>>

\* storage.ValidateKey(key): every middleware passes it to the storage it
\* wraps, and the backend answers
Storage_ValidateKey(key) ==
    /\ mw.pc = "idle"
    /\ BackendOf(mw.storage) \in Backends
    /\ mw' = [IdleStorage(mw.storage) EXCEPT
                 !.pc = "returned", !.op = "ValidateKey", !.key = key,
                 !.err = Backend_ValidateKey(BackendOf(mw.storage), key),
                 !.store = mw.store, !.storeAtCall = mw.store]
    /\ UNCHANGED <<svcVars, now, entVars, capacity>>

\* the context passed to the call is cancelled
Storage_Cancel ==
    /\ mw.pc \notin {"idle", "returned"}
    /\ ~mw.ctxDone
    /\ mw' = [mw EXCEPT !.ctxDone = TRUE, !.canceledIn = mw.pc,
                        !.callsAtCancel = mw.calls]
    /\ UNCHANGED <<svcVars, now, entVars, capacity>>

\* the caller has taken the result
Storage_Next ==
    /\ mw.pc = "returned"
    /\ mw' = [IdleStorage(mw.storage) EXCEPT !.store = mw.store]
    /\ UNCHANGED <<svcVars, now, entVars, capacity>>


\* ------------------------------------------------------------- specification
\* inputs
UpdateStatuses == Statuses \cup {"none", "archived"}
HandlerStatuses == {StatusCompleted, StatusCanceled}
Actor == <<" ", "a", " ">>
RaceInputs == {"valid", "noStatus", "blankTitle"}

NoCall == [status |-> "", updatedBy |-> <<>>, at |-> 0, err |-> ErrNone,
           before |-> NewReport(<<>>, <<>>, "", <<>>, <<>>, <<>>)]

Init ==
    /\ repo = [id \in IDs |-> NoRow]
    /\ nextID = 1
    /\ tasks = <<>>
    /\ cancellations = <<>>
    /\ exec = [id \in IDs |-> NoExec]
    /\ files = {}
    /\ svcCancellations = {}
    /\ cl = [c \in Clients |-> IdleClient]
    /\ now = 1
    /\ entity = NewReport(<<>>, <<>>, "", <<>>, <<>>, <<>>)
    /\ setStatusCall = NoCall
    /\ mw = IdleStorage(wrapWithMiddleware(NewBackend("local"), TRUE))
    /\ capacity = QueueCap

Next ==
    \/ \E c \in Clients, in \in RaceInputs, done \in BOOLEAN :
          nextID <= RaceReports /\ CreateReport(c, in, done)
    \/ \E c \in Clients : CreateReport_SubmitTask(c)
    \/ \E c \in Clients : CreateReport_MarkFailed(c)
    \/ \E c \in Clients, id \in IDs, st \in UpdateStatuses : UpdateReport(c, id, st, <<>>)
    \/ \E c \in Clients : UpdateReport_Update(c)
    \/ \E c \in Clients, id \in IDs : CancelReportGeneration(c, id)
    \/ \E c \in Clients : CancelReportGeneration_CancelTask(c)
    \/ \E c \in Clients : CancelReportGeneration_UpdateStatus(c)
    \/ \E c \in Clients, id \in IDs : DeleteReport(c, id)
    \/ \E c \in Clients : DeleteReport_DeleteFile(c)
    \/ \E c \in Clients : DeleteReport_DeleteRow(c)
    \/ \E c \in Clients, id \in IDs, st \in HandlerStatuses :
          HandlerUpdateReportStatus(c, id, st, Actor)
    \/ \E c \in Clients : RequestCanceled(c)
    \/ \E c \in Clients : NextRequest(c)
    \/ Start
    \/ \E id \in IDs : processTask_Store(id)
    \/ \E id \in IDs : processReportGeneration_Processing(id)
    \/ \E id \in IDs : processReportGeneration_GetByID(id)
    \/ \E id \in IDs : processReportGeneration_Generate(id)
    \/ \E id \in IDs : processReportGeneration_Save(id)
    \/ \E id \in IDs : processReportGeneration_Completed(id)
    \/ \E id \in IDs : processReportGeneration_Failed(id)
    \/ \E id \in IDs : processTask_Return(id)
    \/ \E id \in IDs : Timeout(id)
    \/ Tick

Spec == Init /\ [][Next]_vars


\* CreateReport called with every kind of input, and the processor
NextCreate ==
    \/ \E c \in Clients, in \in DOMAIN CreateInputs, done \in BOOLEAN :
          CreateReport(c, in, done)
    \/ \E c \in Clients : CreateReport_SubmitTask(c)
    \/ \E c \in Clients : CreateReport_MarkFailed(c)
    \/ \E c \in Clients : RequestCanceled(c)
    \/ \E c \in Clients : NextRequest(c)
    \/ Start
    \/ \E id \in IDs : processTask_Store(id)
    \/ \E id \in IDs : processReportGeneration_Processing(id)
    \/ \E id \in IDs : processReportGeneration_GetByID(id)
    \/ \E id \in IDs : processReportGeneration_Generate(id)
    \/ \E id \in IDs : processReportGeneration_Save(id)
    \/ \E id \in IDs : processReportGeneration_Completed(id)
    \/ \E id \in IDs : processReportGeneration_Failed(id)
    \/ \E id \in IDs : processTask_Return(id)
    \/ \E id \in IDs : Timeout(id)
    \/ Tick

SpecCreate == Init /\ [][NextCreate]_vars

\* ------------------------------------------------ SetStatus on a Report value
\* user names passed as updatedBy
Actors == {<<"a">>, <<" ", "b", " ">>, <<>>}

\* a Report as NewReportBuilder makes it (Status pending), or as a struct
\* literal that does not set Status
InitEntity ==
    /\ repo = [id \in IDs |-> NoRow]
    /\ nextID = 1
    /\ tasks = <<>>
    /\ cancellations = <<>>
    /\ exec = [id \in IDs |-> NoExec]
    /\ files = {}
    /\ svcCancellations = {}
    /\ cl = [c \in Clients |-> IdleClient]
    /\ now = 1
    /\ \E st \in {StatusPending, ""}, by \in {<<"a">>, <<"b">>} :
          entity = NewReport(<<"a">>, <<>>, st, <<>>, by, by)
    /\ setStatusCall = NoCall
    /\ mw = IdleStorage(wrapWithMiddleware(NewBackend("local"), TRUE))
    /\ capacity = QueueCap

\* r.SetStatus(status, updatedBy) on the entity
Entity_SetStatus(status, updatedBy) ==
    /\ LET res == SetStatus(entity, status, updatedBy, now)
       IN /\ entity' = res.report
          /\ setStatusCall' = [status |-> status, updatedBy |-> updatedBy, at |-> now,
                               err |-> res.err, before |-> entity]
    /\ UNCHANGED <<svcVars, now, mw, capacity>>

NextEntity ==
    \/ \E status \in AnyStatus, updatedBy \in Actors : Entity_SetStatus(status, updatedBy)
    \/ Tick

SpecEntity == InitEntity /\ [][NextEntity]_vars


\* --------------------------------- the processor driven through its interface
ErrTaskNotFound == "task_not_found"

\* SyncBackgroundProcessor.SubmitTask on channel q with a context that is done
\* or not: the outcomes the select can have.  A case that is ready may be
\* taken; default is taken only when no case is ready
SubmitTaskDropsOldest(q, task, ctxDone) ==
    IF Len(q) < capacity THEN {[tasks |-> Append(q, task), err |-> ErrNone]}
    ELSE {[tasks |-> Append(Tail(q), task), err |-> ErrQueueFull]}

SubmitTask(q, task, ctxDone) ==
    {[tasks |-> Append(q, task), err |-> ErrNone] : x \in {y \in {1} : Len(q) < capacity}}
    \cup {[tasks |-> q, err |-> ErrContext] : x \in {y \in {1} : ctxDone}}
    \cup {[tasks |-> q, err |-> ErrQueueFull] :
             x \in {y \in {1} : ~(Len(q) < capacity) /\ ~ctxDone}}

\* tasks a caller of the processor can submit for slot id: a generation task,
\* a task of a type the processor does not know, and a generation task whose
\* payload is not a uint
ProcessorTasks(id) ==
    {NewTask(id), [NewTask(id) EXCEPT !.Type = "unknown"], [NewTask(id) EXCEPT !.Data = -1]}

\* a task with this id is in the channel or was received by Start
Known(taskID) ==
    \/ \E i \in 1..Len(tasks) : tasks[i].ID = taskID
    \/ \E id \in IDs : exec[id].task.ID = taskID

\* a caller submits a task whose id no earlier task had; done = its context
\* is already cancelled
Processor_SubmitTask(c, task, done) ==
    /\ cl[c].pc = "idle"
    /\ ~Known(task.ID)
    /\ \E r \in SubmitTask(tasks, task, done) :
          /\ tasks' = r.tasks
          /\ cl' = [cl EXCEPT ![c] =
                       [IdleClient EXCEPT !.pc = "returned", !.op = "submit",
                                          !.id = task.ID[2],
                                          !.arg = IF done THEN "ctx_done" ELSE "ctx_live",
                                          !.err = r.err,
                                          !.sent = <<task>>]]
    /\ UNCHANGED <<repo, nextID, cancellations, exec, files, svcCancellations,
                   now, entVars, mw, capacity>>

\* a caller calls CancelTask("report_<id>")
Processor_CancelTask(c, id) ==
    /\ cl[c].pc = "idle"
    /\ exec' = CancelTask(<<"report_", id>>)
    /\ cl' = [cl EXCEPT ![c] =
                 [IdleClient EXCEPT !.pc = "returned", !.op = "cancel_task",
                                    !.id = id,
                                    !.err = IF CancelTaskFinds(<<"report_", id>>)
                                            THEN ErrNone ELSE ErrTaskNotFound,
                                    !.sent = <<<<"report_", id>>>>]]
    /\ UNCHANGED <<repo, nextID, tasks, cancellations, files, svcCancellations,
                   now, entVars, mw, capacity>>

\* every report is stored and pending, and no task was submitted yet
InitProcessor ==
    /\ repo = [id \in IDs |-> Row(ValidReport)]
    /\ nextID = MaxReports + 1
    /\ tasks = <<>>
    /\ cancellations = <<>>
    /\ exec = [id \in IDs |-> NoExec]
    /\ files = {}
    /\ svcCancellations = {}
    /\ cl = [c \in Clients |-> IdleClient]
    /\ now = 1
    /\ entity = NewReport(<<>>, <<>>, "", <<>>, <<>>, <<>>)
    /\ setStatusCall = NoCall
    /\ mw = IdleStorage(wrapWithMiddleware(NewBackend("local"), TRUE))
    /\ capacity = QueueCap

NextProcessor ==
    \/ \E c \in Clients, id \in IDs, done \in BOOLEAN :
          \E task \in ProcessorTasks(id) : Processor_SubmitTask(c, task, done)
    \/ \E c \in Clients, id \in IDs : Processor_CancelTask(c, id)
    \/ \E c \in Clients : NextRequest(c)
    \/ Start
    \/ \E id \in IDs : processTask_Store(id)
    \/ \E id \in IDs : processReportGeneration_Processing(id)
    \/ \E id \in IDs : processReportGeneration_GetByID(id)
    \/ \E id \in IDs : processReportGeneration_Generate(id)
    \/ \E id \in IDs : processReportGeneration_Save(id)
    \/ \E id \in IDs : processReportGeneration_Completed(id)
    \/ \E id \in IDs : processReportGeneration_Failed(id)
    \/ \E id \in IDs : processTask_Return(id)
    \/ \E id \in IDs : Timeout(id)
    \/ Tick

SpecProcessor == InitProcessor /\ [][NextProcessor]_vars

\* ------------------------------------------- a generation that nothing disturbs
\* CreateReport with contexts that stay live, a generator and a storage that
\* succeed, no task timeout, and no other service call
NextScenarioA ==
    \/ \E c \in Clients, in \in RaceInputs : CreateReport(c, in, FALSE)
    \/ \E c \in Clients : CreateReport_SubmitTask(c)
    \/ \E c \in Clients : CreateReport_MarkFailed(c)
    \/ \E c \in Clients : NextRequest(c)
    \/ Start
    \/ \E id \in IDs : processTask_Store(id)
    \/ \E id \in IDs : processReportGeneration_Processing(id)
    \/ \E id \in IDs : processReportGeneration_GetByID(id)
    \/ \E id \in IDs : processReportGeneration_Generate(id) /\ exec'[id].pc = "save"
    \/ \E id \in IDs : processReportGeneration_Save(id) /\ exec'[id].pc = "set_completed"
    \/ \E id \in IDs : processReportGeneration_Completed(id)
    \/ \E id \in IDs : processTask_Return(id)
    \/ Tick

\* the dispatcher loop of Start and the goroutines it starts keep running
FairProcessor ==
    /\ WF_vars(Start)
    /\ \A id \in IDs :
          /\ WF_vars(processTask_Store(id))
          /\ WF_vars(processReportGeneration_Processing(id))
          /\ WF_vars(processReportGeneration_GetByID(id))
          /\ WF_vars(processReportGeneration_Generate(id) /\ exec'[id].pc = "save")
          /\ WF_vars(processReportGeneration_Save(id) /\ exec'[id].pc = "set_completed")
          /\ WF_vars(processReportGeneration_Completed(id))
          /\ WF_vars(processTask_Return(id))

SpecScenarioA == Init /\ [][NextScenarioA]_vars /\ FairProcessor

\* ------------------------------------------- service calls on stored reports
\* rows the table can hold once the processor is idle, each with whether the
\* storage has the file of the report: a report that was never created or
\* was deleted, one still pending or processing, one the executor failed or
\* completed, one an UpdateReport completed without a file, and one canceled
\* after the executor had written its file key
StoredRows ==
    LET row(st, key, at) == [Row(ValidReport) EXCEPT !.Status = st, !.FileKey = key,
                                                     !.GeneratedAt = at]
    IN [id \in IDs |->
          {[row |-> NoRow, file |-> FALSE],
           [row |-> row(StatusPending, <<>>, 0), file |-> FALSE],
           [row |-> row(StatusProcessing, <<>>, 0), file |-> FALSE],
           [row |-> row(StatusFailed, <<>>, 0), file |-> FALSE],
           [row |-> row(StatusCompleted, GenerateKey(id), 1), file |-> TRUE],
           [row |-> row(StatusCompleted, <<>>, 0), file |-> FALSE],
           [row |-> row(StatusCanceled, GenerateKey(id), 1), file |-> TRUE]}]

\* parameters a patch can carry: none, or a new JSON object
PatchParameters == {<<>>, <<"{k:1}">>}

InitStored ==
    /\ \E stored \in [IDs -> UNION {StoredRows[id] : id \in IDs}] :
          /\ \A id \in IDs : stored[id] \in StoredRows[id]
          /\ repo = [id \in IDs |-> stored[id].row]
          /\ files = {GenerateKey(id) : id \in {i \in IDs : stored[i].file}}
    /\ nextID = MaxReports + 1
    /\ tasks = <<>>
    /\ cancellations = <<>>
    /\ exec = [id \in IDs |-> NoExec]
    /\ svcCancellations = {}
    /\ cl = [c \in Clients |-> IdleClient]
    /\ now = 1
    /\ entity = NewReport(<<>>, <<>>, "", <<>>, <<>>, <<>>)
    /\ setStatusCall = NoCall
    /\ mw = IdleStorage(wrapWithMiddleware(NewBackend("local"), TRUE))
    /\ capacity = QueueCap

\* the calls are made one after the other
Callers == {1}

NextStored ==
    \/ \E c \in Callers, id \in IDs, st \in UpdateStatuses, p \in PatchParameters :
          UpdateReport(c, id, st, p)
    \/ \E c \in Callers : UpdateReport_Update(c)
    \/ \E c \in Callers, id \in IDs : DeleteReport(c, id)
    \/ \E c \in Callers : DeleteReport_DeleteFile(c)
    \/ \E c \in Callers : DeleteReport_DeleteRow(c)
    \/ \E c \in Callers, id \in IDs : GetReportFile(c, id)
    \/ \E c \in Callers : GetReportFile_Get(c)
    \/ \E c \in Callers : RequestCanceled(c)
    \/ \E c \in Callers : NextRequest(c)

SpecStored == InitStored /\ [][NextStored]_vars


\* ------------------------------------------------------- calls on a storage
\* second keys of Copy and Move
SecondKeys == {KeyEmpty, KeyValid, KeyDotDot}

\* the keys Save and Delete are called with; Copy and Move are called with
\* the other keys as their source
WrittenKeys == {KeyEmpty, KeyValid}

\* numbers of times the backend fails before it succeeds; more than
\* DefaultMaxRetries: it fails in every attempt
Failures == 0..(DefaultMaxRetries + 1)

InitStorage ==
    /\ repo = [id \in IDs |-> NoRow]
    /\ nextID = 1
    /\ tasks = <<>>
    /\ cancellations = <<>>
    /\ exec = [id \in IDs |-> NoExec]
    /\ files = {}
    /\ svcCancellations = {}
    /\ cl = [c \in Clients |-> IdleClient]
    /\ now = 1
    /\ entity = NewReport(<<>>, <<>>, "", <<>>, <<>>, <<>>)
    /\ setStatusCall = NoCall
    /\ \E s \in Storages : mw = IdleStorage(s)
    /\ capacity = QueueCap

NextStorage ==
    \/ \E op \in Ops \ (TwoKeyOps \cup {"Save", "Delete"}), key \in Keys, n \in Failures :
          Storage_Call(op, key, <<>>, n)
    \/ \E op \in {"Save", "Delete"}, key \in WrittenKeys, n \in Failures :
          Storage_Call(op, key, <<>>, n)
    \/ \E op \in TwoKeyOps, key \in Keys \ WrittenKeys, key2 \in SecondKeys,
          n \in Failures :
          Storage_Call(op, key, key2, n)
    \/ \E key \in Keys : Storage_ValidateKey(key)
    \/ ValidationMiddleware_Call
    \/ ValidationMiddleware_Return
    \/ LoggingMiddleware_Call
    \/ LoggingMiddleware_Return
    \/ RetryMiddleware_Call
    \/ RetryMiddleware_Return
    \/ RetryMiddleware_Select
    \/ Backend_Call
    \/ Storage_Cancel
    \/ Storage_Next

SpecStorage == InitStorage /\ [][NextStorage]_vars


\* ------------------------------------- the channel between SubmitTask and Start
\* a channel that can hold the tasks of all reports at once, callers that
\* submit a task for each report, and a processor that nothing disturbs
InitQueue ==
    /\ repo = [id \in IDs |-> Row(ValidReport)]
    /\ nextID = MaxReports + 1
    /\ tasks = <<>>
    /\ cancellations = <<>>
    /\ exec = [id \in IDs |-> NoExec]
    /\ files = {}
    /\ svcCancellations = {}
    /\ cl = [c \in Clients |-> IdleClient]
    /\ now = 1
    /\ entity = NewReport(<<>>, <<>>, "", <<>>, <<>>, <<>>)
    /\ setStatusCall = NoCall
    /\ mw = IdleStorage(wrapWithMiddleware(NewBackend("local"), TRUE))
    /\ capacity = WideQueueCap

NextQueue ==
    \/ \E c \in Clients, id \in IDs, done \in BOOLEAN :
          \E task \in {NewTask(id), [NewTask(id) EXCEPT !.Type = "unknown"]} :
             Processor_SubmitTask(c, task, done)
    \/ \E c \in Clients : NextRequest(c)
    \/ Start
    \/ \E id \in IDs : processTask_Store(id)
    \/ \E id \in IDs : processReportGeneration_Processing(id)
    \/ \E id \in IDs : processReportGeneration_GetByID(id)
    \/ \E id \in IDs : processReportGeneration_Generate(id) /\ exec'[id].pc = "save"
    \/ \E id \in IDs : processReportGeneration_Save(id) /\ exec'[id].pc = "set_completed"
    \/ \E id \in IDs : processReportGeneration_Completed(id)
    \/ \E id \in IDs : processTask_Return(id)

SpecQueue == InitQueue /\ [][NextQueue]_vars /\ FairProcessor


\* -------------------------------------------- tasks that share their task id
\* a caller submits a task with the id an earlier task had (SubmitTask does not
\* look at the ids), while the model has an executor left for it
Processor_SubmitTaskAgain(c, task, done) ==
    /\ cl[c].pc = "idle"
    /\ Known(task.ID)
    /\ Len(tasks) + Cardinality({e \in IDs : exec[e].pc # "none"}) < MaxReports
    /\ \E r \in SubmitTask(tasks, task, done) :
          /\ tasks' = r.tasks
          /\ cl' = [cl EXCEPT ![c] =
                       [IdleClient EXCEPT !.pc = "returned", !.op = "submit",
                                          !.id = task.ID[2],
                                          !.arg = IF done THEN "ctx_done" ELSE "ctx_live",
                                          !.err = r.err,
                                          !.sent = <<task>>]]
    /\ UNCHANGED <<repo, nextID, cancellations, exec, files, svcCancellations,
                   now, entVars, mw, capacity>>

\* generation tasks for report 1 are submitted, one after another
NextSameID ==
    \/ \E c \in Clients, done \in BOOLEAN : Processor_SubmitTask(c, NewTask(1), done)
    \/ \E c \in Clients, done \in BOOLEAN : Processor_SubmitTaskAgain(c, NewTask(1), done)
    \/ \E c \in Clients : Processor_CancelTask(c, 1)
    \/ \E c \in Clients : NextRequest(c)
    \/ Start
    \/ \E id \in IDs : processTask_Store(id)
    \/ \E id \in IDs : processReportGeneration_Processing(id)
    \/ \E id \in IDs : processReportGeneration_GetByID(id)
    \/ \E id \in IDs : processReportGeneration_Generate(id)
    \/ \E id \in IDs : processReportGeneration_Save(id)
    \/ \E id \in IDs : processReportGeneration_Completed(id)
    \/ \E id \in IDs : processReportGeneration_Failed(id)
    \/ \E id \in IDs : processTask_Return(id)

SpecSameID == InitProcessor /\ [][NextSameID]_vars


\* ===================================================================== claims
\* the transition table of the specification, section 4.1
TransitionTable ==
    {<<StatusPending, StatusProcessing>>, <<StatusPending, StatusCanceled>>,
     <<StatusProcessing, StatusCompleted>>, <<StatusProcessing, StatusFailed>>,
     <<StatusProcessing, StatusCanceled>>,
     <<StatusFailed, StatusPending>>, <<StatusCanceled, StatusPending>>}

\* C4: for every pair (from, to) of the five statuses, SetStatus(to, actor) on
\* a report whose status is from succeeds exactly when (from, to) is an edge of
\* the transition table and fails with the invalid-transition error otherwise;
\* on success the status is to, updatedBy is the actor and updatedAt is the
\* time of the call.
C4_SetStatusFollowsTable ==
    LET k == setStatusCall
    IN (k # NoCall /\ k.before.Status \in Statuses /\ k.status \in Statuses) =>
          IF <<k.before.Status, k.status>> \in TransitionTable
          THEN /\ k.err = ErrNone
               /\ entity.Status = k.status
               /\ entity.UpdatedBy = TrimSpace(k.updatedBy)
               /\ entity.UpdatedAt = k.at
          ELSE /\ k.err = ErrInvalidTransition
               /\ entity.Status = k.before.Status

\* a resume (canceled -> pending) succeeded at a later time than the previous
\* change, with an actor name that carries blanks
C4_Witness ==
    /\ setStatusCall # NoCall
    /\ setStatusCall.before.Status = StatusCanceled
    /\ setStatusCall.status = StatusPending
    /\ setStatusCall.err = ErrNone
    /\ setStatusCall.updatedBy = <<" ", "b", " ">>
    /\ setStatusCall.at > setStatusCall.before.UpdatedAt
    /\ entity.Status = StatusPending

\* C5: SetStatus with a new status that is none of the five recognized values
\* fails with the invalid-status error, whatever the current status is.
C5_UnrecognizedStatusRejected ==
    (setStatusCall # NoCall /\ setStatusCall.status \notin Statuses) =>
        /\ setStatusCall.err = ErrInvalidStatus
        /\ entity = setStatusCall.before

\* an unrecognized status was passed to a report in each kind of state: a
\* terminal one, one with outgoing edges, and one whose own status is not set
C5_Witness ==
    /\ setStatusCall # NoCall
    /\ setStatusCall.status = "archived"
    /\ setStatusCall.before.Status = StatusCompleted
    /\ setStatusCall.err = ErrInvalidStatus


\* C1: in every interleaving of CreateReport, UpdateReport,
\* CancelReportGeneration and the executor, each change of the status of a row
\* of the reports table goes along an edge of the transition table.
C1_StatusChangesFollowTable ==
    [][\A id \in IDs :
          (HasRow(id) /\ repo'[id] # NoRow /\ repo'[id].Status # repo[id].Status)
              => <<repo[id].Status, repo'[id].Status>> \in TransitionTable]_vars

\* a CancelReportGeneration call for report id has returned nil
CancelReturned(id) ==
    \E c \in Clients :
        /\ cl[c].op = "cancel"
        /\ cl[c].pc = "returned"
        /\ cl[c].err = ErrNone
        /\ cl[c].id = id

\* C2: cancellation wins: once CancelReportGeneration has persisted canceled
\* for a report, no step of the executor of that report's task writes
\* processing or completed over it, wherever that task was when the cancel
\* was issued.
C2_CancellationWins ==
    [][\A id \in IDs :
          (/\ CancelReturned(id)
           /\ HasRow(id)
           /\ repo[id].Status = StatusCanceled
           /\ exec'[id].pc # exec[id].pc
           /\ repo'[id] # NoRow)
              => repo'[id].Status \notin {StatusProcessing, StatusCompleted}]_vars

\* C3: completed is terminal: while the row exists, no service call and no
\* step of the executor changes a status that is completed.
C3_CompletedIsTerminal ==
    [][\A id \in IDs :
          (HasRow(id) /\ repo[id].Status = StatusCompleted /\ repo'[id] # NoRow)
              => repo'[id].Status = StatusCompleted]_vars

\* the step is the executor's UpdateStatus(StatusCompleted) for report id
ExecutorWritesCompleted(id) ==
    /\ exec[id].pc = "set_completed"
    /\ exec'[id].pc = "cleanup"
    /\ ~exec[id].ctxDone
    /\ HasRow(id)

\* C6: generatedAt is set exactly once.  In the reports table a new row has no
\* generatedAt, it becomes set only by a write of completed, the executor's
\* write of completed sets it, and once set no step changes it.  On an entity,
\* SetStatus sets it when it is unset and the new status is completed, and
\* leaves it alone in every other case.
C6_GeneratedAtSetOnce ==
    [][/\ \A id \in IDs :
            /\ (~HasRow(id) /\ repo'[id] # NoRow) => repo'[id].GeneratedAt = 0
            /\ (HasRow(id) /\ repo'[id] # NoRow) =>
                  /\ repo[id].GeneratedAt # 0 =>
                        repo'[id].GeneratedAt = repo[id].GeneratedAt
                  /\ (repo[id].GeneratedAt = 0 /\ repo'[id].GeneratedAt # 0) =>
                        /\ repo'[id].Status = StatusCompleted
                        /\ repo'[id].GeneratedAt = now
                  /\ ExecutorWritesCompleted(id) =>
                        /\ repo'[id].Status = StatusCompleted
                        /\ repo'[id].GeneratedAt # 0
       /\ \A c \in Clients :
            (/\ cl[c].pc = "idle"
             /\ cl'[c].op = "set_status"
             /\ cl'[c].err # ErrNotFound) =>
                LET o == cl'[c].out
                IN IF o.before.GeneratedAt # 0
                   THEN o.after.GeneratedAt = o.before.GeneratedAt
                   ELSE IF cl'[c].err = ErrNone /\ cl'[c].arg = StatusCompleted
                   THEN o.after.GeneratedAt = o.at /\ o.after.Status = StatusCompleted
                   ELSE o.after.GeneratedAt = 0]_vars

\* SetStatus(completed) succeeded on a report that the executor had completed
\* at an earlier time and that was moved back to processing since: the
\* generatedAt of the first completion is kept
C6_Witness ==
    \E c \in Clients :
        /\ cl[c].op = "set_status"
        /\ cl[c].pc = "returned"
        /\ cl[c].err = ErrNone
        /\ cl[c].arg = StatusCompleted
        /\ cl[c].out.before.GeneratedAt # 0
        /\ cl[c].out.at > cl[c].out.before.GeneratedAt
        /\ cl[c].out.after.GeneratedAt = cl[c].out.before.GeneratedAt
        /\ HasRow(cl[c].id)
        /\ repo[cl[c].id].GeneratedAt = cl[c].out.before.GeneratedAt

\* the tasks for report id that are in the channel
Queued(id) == {i \in 1..Len(tasks) : tasks[i].Data = id}

\* the tasks for report id that were ever submitted: still in the channel, or
\* received by Start
Submitted(id) == Cardinality(Queued(id)) + (IF exec[id].pc # "none" THEN 1 ELSE 0)

\* C8: a CreateReport call that returns nil has persisted the report and then
\* submitted exactly one task, whose id is "report_<id>" and is the id that
\* CancelReportGeneration passes to CancelTask for that report; no task is
\* submitted before the repository Create succeeds.
C8_OneTaskKeyedToReport ==
    /\ \A c \in Clients :
          (cl[c].op = "create" /\ cl[c].pc = "returned" /\ cl[c].err = ErrNone) =>
              /\ cl[c].out.ID \in IDs
              /\ cl[c].out.ID < nextID
              /\ Len(cl[c].sent) = 1
              /\ cl[c].sent[1].ID = <<"report_", cl[c].out.ID>>
              /\ cl[c].sent[1].Data = cl[c].out.ID
              /\ Submitted(cl[c].out.ID) = 1
    /\ \A c \in Clients :
          (cl[c].op = "create" /\ cl[c].pc = "create_submit") =>
              /\ cl[c].id < nextID
              /\ Submitted(cl[c].id) = 0
    /\ \A id \in IDs :
          /\ Submitted(id) <= 1
          /\ Submitted(id) = 1 => id < nextID
    /\ \A c \in Clients :
          (cl[c].op = "cancel" /\ cl[c].sent # <<>>) =>
              /\ cl[c].sent = <<<<"report_", cl[c].id>>>>
              /\ \A d \in Clients :
                    (/\ cl[d].op = "create"
                     /\ cl[d].sent # <<>>
                     /\ cl[d].out.ID = cl[c].id) => cl[c].sent[1] = cl[d].sent[1].ID

\* a CreateReport has returned nil and a CancelReportGeneration for the report
\* it created has called CancelTask and found the task registered
C8_Witness ==
    \E c, d \in Clients :
        /\ cl[c].op = "create"
        /\ cl[c].pc = "returned"
        /\ cl[c].err = ErrNone
        /\ cl[d].op = "cancel"
        /\ cl[d].id = cl[c].out.ID
        /\ cl[d].pc = "cancel_write"
        /\ cl[d].arg = "task_canceled"
        /\ cl[d].sent = <<cl[c].sent[1].ID>>


\* a generation task for report id is queued or running
TaskInFlight(id) == Queued(id) # {} \/ exec[id].pc \notin {"none", "done"}

\* a CreateReport call for report id is still between Create and its return
Creating(id) ==
    \E c \in Clients :
        /\ cl[c].op = "create"
        /\ cl[c].id = id
        /\ cl[c].pc \in {"create_submit", "create_failed"}

\* C7: when CreateReport has persisted the report and SubmitTask fails, the
\* report is marked failed and the error is returned; no report that
\* CreateReport created stays pending with no task queued or running for it.
C7_SubmitFailureMarksFailed ==
    /\ \A c \in Clients :
          (/\ cl[c].op = "create"
           /\ cl[c].pc = "returned"
           /\ cl[c].err \in {ErrQueueFull, ErrContext}) =>
              repo[cl[c].id].Status = StatusFailed
    /\ \A id \in IDs :
          (HasRow(id) /\ repo[id].Status = StatusPending) =>
              TaskInFlight(id) \/ Creating(id)

\* the validation rules of a new report: title present and at most 255 long,
\* description at most 1000, createdBy and updatedBy present and at most 255,
\* status, when given, one of the five
InvalidInput(r) ==
    \/ TrimSpace(r.Title) = <<>>
    \/ Len(r.Title) > 255
    \/ Len(r.Description) > 1000
    \/ TrimSpace(r.CreatedBy) = <<>>
    \/ Len(r.CreatedBy) > 255
    \/ TrimSpace(r.UpdatedBy) = <<>>
    \/ Len(r.UpdatedBy) > 255
    \/ (r.Status # "" /\ r.Status \notin Statuses)

\* C9: a CreateReport call whose report fails validation returns the
\* validation error in the step of the call and has no effect: the reports
\* table, the id sequence, the task channel, the registry, the executors and
\* the storage are as before.
C9_InvalidCreateHasNoEffect ==
    [][\A c \in Clients :
          (/\ cl[c].pc = "idle"
           /\ cl'[c].op = "create"
           /\ InvalidInput(CreateInputs[cl'[c].arg])) =>
              /\ cl'[c].pc = "returned"
              /\ cl'[c].err = ErrValidation
              /\ cl'[c].sent = <<>>
              /\ UNCHANGED <<repo, nextID, tasks, cancellations, exec, files>>]_vars

\* a report with an unrecognized status was refused after another report had
\* been created and its task queued
C9_Witness ==
    \E c \in Clients :
        /\ cl[c].op = "create"
        /\ cl[c].pc = "returned"
        /\ cl[c].arg = "badStatus"
        /\ cl[c].err = ErrValidation
        /\ nextID = 2
        /\ HasRow(1)
        /\ ~HasRow(2)
        /\ Len(tasks) = 1

\* C10: CreateReport on a report with valid title, description and audit
\* fields and no status succeeds (unless the repository or the processor
\* fails), assigns a non-zero id and leaves the report pending.
C10_NoStatusDefaultsToPending ==
    \A c \in Clients :
        (/\ cl[c].op = "create"
         /\ cl[c].pc = "returned"
         /\ cl[c].arg = "noStatus"
         /\ cl[c].err \notin {ErrCreate, ErrQueueFull, ErrContext}) =>
            /\ cl[c].err = ErrNone
            /\ cl[c].out.ID # 0
            /\ cl[c].out.Status = StatusPending


\* the step is a SubmitTask call of client c
SubmitStep(c) == cl[c].pc = "idle" /\ cl'[c].op = "submit"

\* C11 as stated: SubmitTask never blocks; when the channel has no free slot
\* at the moment of submission it returns the queue-full error and leaves the
\* channel unchanged; when there is a free slot and it returns nil the task
\* has been enqueued exactly once.
C11_QueueFullWhenNoSlot ==
    [][\A c \in Clients :
          SubmitStep(c) =>
              /\ Len(tasks) >= QueueCap =>
                    cl'[c].err = ErrQueueFull /\ tasks' = tasks
              /\ (Len(tasks) < QueueCap /\ cl'[c].err = ErrNone) =>
                    tasks' = Append(tasks, cl'[c].sent[1])]_vars

\* C11 amended: SubmitTask never blocks: a call can always return.  With no
\* free slot it leaves the channel unchanged and returns an error, which is
\* the queue-full error when the caller's context is live and the context's
\* error when that context is done.  With a free slot and a live context it
\* returns nil; with a done context it may return the context's error instead.
\* Whenever it returns nil the task has been appended to the channel exactly
\* once, and whenever it returns an error the channel is unchanged.
C11_SubmitTaskNeverBlocks ==
    [][/\ \A c \in Clients, id \in IDs, done \in BOOLEAN :
             (cl[c].pc = "idle" /\ ~Known(<<"report_", id>>)) =>
                 ENABLED Processor_SubmitTask(c, NewTask(id), done)
       /\ \A c \in Clients :
             SubmitStep(c) =>
                 LET e == cl'[c].err
                     live == cl'[c].arg = "ctx_live"
                     full == Len(tasks) >= QueueCap
                 IN /\ e \in {ErrNone, ErrQueueFull, ErrContext}
                    /\ e = ErrNone => ~full /\ tasks' = Append(tasks, cl'[c].sent[1])
                    /\ e # ErrNone => tasks' = tasks
                    /\ full => e = (IF live THEN ErrQueueFull ELSE ErrContext)
                    /\ (~full /\ live) => e = ErrNone
                    /\ (~full /\ ~live) => e \in {ErrNone, ErrContext}]_vars

\* a caller whose context was done submitted to a full channel and got the
\* context's error; the channel still holds the task that filled it
C11_Witness ==
    \E c \in Clients :
        /\ cl[c].op = "submit"
        /\ cl[c].pc = "returned"
        /\ cl[c].arg = "ctx_done"
        /\ cl[c].err = ErrContext
        /\ Len(tasks) = QueueCap
        /\ \A i \in 1..Len(tasks) : tasks[i] # cl[c].sent[1]


\* the step is a CancelTask call of client c
CancelTaskStep(c) == cl[c].pc = "idle" /\ cl'[c].op = "cancel_task"

\* C12: CancelTask(taskId) returns the task-not-found error when taskId is
\* not in the registry, which is the case for a task that was never
\* submitted, is still in the channel, or has finished; when taskId is
\* registered it returns nil and the context of the goroutine running that
\* task is done afterwards.  No other goroutine is touched.
C12_CancelTaskByRegistry ==
    [][/\ \A id \in IDs :
             (\/ ~Known(<<"report_", id>>)
              \/ \E i \in 1..Len(tasks) : tasks[i].ID = <<"report_", id>>
              \/ exec[id].pc = "done") => <<"report_", id>> \notin DOMAIN cancellations
       /\ \A c \in Clients :
             CancelTaskStep(c) =>
                 LET id == cl'[c].id
                 IN /\ cl'[c].sent = <<<<"report_", id>>>>
                    /\ IF <<"report_", id>> \in DOMAIN cancellations
                       THEN /\ cl'[c].err = ErrNone
                            /\ exec[id].pc \notin {"none", "store", "done"}
                            /\ exec'[id].ctxDone
                            /\ exec'[id].pc = exec[id].pc
                       ELSE /\ cl'[c].err = ErrTaskNotFound
                            /\ exec'[id] = exec[id]
                    /\ \A other \in IDs \ {id} : exec'[other] = exec[other]]_vars

\* CancelTask returned nil for a task whose report was being generated, and
\* the context of that goroutine is done
C12_Witness ==
    \E c \in Clients :
        /\ cl[c].op = "cancel_task"
        /\ cl[c].pc = "returned"
        /\ cl[c].err = ErrNone
        /\ exec[cl[c].id].pc = "generate"
        /\ exec[cl[c].id].ctxDone
        /\ \E other \in IDs : exec[other].pc = "save" /\ ~exec[other].ctxDone


\* the goroutine of slot id is between its Store and its deferred Delete
Executing(id) ==
    exec[id].pc \in {"set_processing", "get", "generate", "save", "set_completed",
                     "set_failed", "cleanup"}

\* C13: registry lifecycle, for tasks with distinct ids: the handle of a task
\* is in the registry exactly while the goroutine of that task is between its
\* Store, which precedes every status write, generator call and save, and the
\* end of its execution, on every exit path; the handle stored under a task id
\* is the one of the goroutine running that task; the registry is empty once
\* all tasks have finished.
C13_RegistryLifecycle ==
    /\ \A id \in IDs :
          /\ <<"report_", id>> \in DOMAIN cancellations <=> Executing(id)
          /\ Executing(id) => cancellations[<<"report_", id>>] = id
          /\ Executing(id) => exec[id].task.ID = <<"report_", id>>
    /\ DOMAIN cancellations \subseteq {<<"report_", id>> : id \in IDs}
    /\ (tasks = <<>> /\ \A id \in IDs : exec[id].pc \in {"none", "done"}) =>
          cancellations = <<>>

\* both tasks have finished, one on the success path and one that the switch
\* on the task type skipped, and the registry is empty
C13_Witness ==
    /\ tasks = <<>>
    /\ cancellations = <<>>
    /\ \E id \in IDs :
          /\ exec[id].pc = "done"
          /\ exec[id].task.Type = "report_generation"
          /\ repo[id].Status = StatusCompleted
    /\ \E id \in IDs : exec[id].pc = "done" /\ exec[id].task.Type = "unknown"


\* client c holds the result nil of a CancelTask call for slot id
CancelTaskFound(c, id) ==
    /\ cl[c].op = "cancel_task"
    /\ cl[c].pc = "returned"
    /\ cl[c].id = id
    /\ cl[c].err = ErrNone

\* C14: the registry has load-and-delete semantics: for one registered task,
\* among the CancelTask calls made for it at most one finds the handle and
\* calls it; the others get the task-not-found error.
C14_AtMostOneCancelFinds ==
    \A id \in IDs : \A c, d \in Clients :
        (CancelTaskFound(c, id) /\ CancelTaskFound(d, id)) => c = d


\* C15: an execution of a generation task first writes processing; when a
\* later step fails the status is set to failed and the execution stops; only
\* when every step succeeded is completed written, together with the file
\* key.  No execution ends leaving the report in processing.
C15_ExecutionEndsFailedOrCompleted ==
    \A id \in IDs :
        (exec[id].pc = "done" /\ HasRow(id)) =>
            /\ repo[id].Status # StatusProcessing
            /\ repo[id].Status = StatusCompleted =>
                  repo[id].FileKey # <<>> /\ repo[id].FileKey \in files


\* C16: the executor checks for cancellation before the generator call and
\* before the storage save: a goroutine whose context is done when it reaches
\* the generator call does not get a generated file and goes to the failure
\* path, and one whose context is done when it reaches the save stores no
\* file and goes to the failure path.
C16_CancellationCheckpoints ==
    [][\A id \in IDs :
          (exec[id].ctxDone /\ exec'[id].pc # exec[id].pc) =>
              /\ exec[id].pc = "generate" => exec'[id].pc = "set_failed"
              /\ exec[id].pc = "save" =>
                    exec'[id].pc = "set_failed" /\ files' = files]_vars


\* a CreateReport call that returned nil created report id
Created(id) ==
    \E c \in Clients :
        /\ cl[c].op = "create"
        /\ cl[c].pc = "returned"
        /\ cl[c].err = ErrNone
        /\ cl[c].out.ID = id

\* report id is completed, with a file key under which the storage has a file
CompletedWithFile(id) ==
    /\ HasRow(id)
    /\ repo[id].Status = StatusCompleted
    /\ repo[id].FileKey # <<>>
    /\ repo[id].FileKey \in files

C18_NoFileAfterCancel ==
    [][\A id \in IDs :
          (/\ CancelReturned(id)
           /\ HasRow(id)
           /\ repo[id].FileKey = <<>>
           /\ <<"reports/", id>> \notin files) =>
              /\ <<"reports/", id>> \notin files'
              /\ repo'[id] # NoRow => repo'[id].FileKey = <<>>]_vars


\* what a failing or not yet writing service call leaves alone
NothingChanged == UNCHANGED <<repo, nextID, tasks, cancellations, exec, files>>

\* C19: CancelReportGeneration(id) fails with not-found and changes nothing
\* when the report does not exist; fails with the invalid-transition error
\* and changes nothing when the status is completed, failed or canceled;
\* otherwise it calls CancelTask with "report_<id>", goes on whether or not
\* the task was found, writes canceled and returns nil.
C19_CancelReportGeneration ==
    [][\A c \in Clients :
          /\ (cl[c].pc = "idle" /\ cl'[c].op = "cancel") =>
                LET id == cl'[c].id
                IN /\ NothingChanged
                   /\ IF ~HasRow(id)
                      THEN cl'[c].pc = "returned" /\ cl'[c].err = ErrNotFound
                      ELSE IF repo[id].Status \in {StatusCompleted, StatusFailed, StatusCanceled}
                      THEN cl'[c].pc = "returned" /\ cl'[c].err = ErrInvalidTransition
                      ELSE cl'[c].pc = "cancel_task"
          /\ (cl[c].pc = "cancel_task" /\ cl'[c].pc # "cancel_task") =>
                /\ cl'[c].pc = "cancel_write"
                /\ cl'[c].sent = <<<<"report_", cl[c].id>>>>
                /\ UNCHANGED <<repo, nextID, tasks, cancellations, files>>
          /\ (cl[c].pc = "cancel_write" /\ cl'[c].pc # "cancel_write" /\ ~cl[c].ctxDone) =>
                /\ cl'[c].pc = "returned"
                /\ cl'[c].err = ErrNone
                /\ HasRow(cl[c].id) => repo'[cl[c].id].Status = StatusCanceled
                /\ \A other \in IDs \ {cl[c].id} : repo'[other] = repo[other]
                /\ UNCHANGED <<nextID, tasks, cancellations, exec, files>>]_vars

\* a cancel returned nil and the report is canceled although CancelTask cannot
\* have found the task, which is still in the channel
C19_Witness ==
    \E c \in Clients :
        /\ cl[c].op = "cancel"
        /\ cl[c].pc = "returned"
        /\ cl[c].err = ErrNone
        /\ cl[c].sent = <<<<"report_", cl[c].id>>>>
        /\ HasRow(cl[c].id)
        /\ repo[cl[c].id].Status = StatusCanceled
        /\ Queued(cl[c].id) # {}


\* C20: DeleteReport(id) fails with not-found and changes neither the storage
\* nor the table when the report does not exist; when it exists, the file
\* deletion is attempted only for a report with a file key, its failure does
\* not stop the call, and the row is deleted and nil returned unless the
\* repository delete itself fails.
C20_DeleteReport ==
    [][\A c \in Clients :
          /\ (cl[c].pc = "idle" /\ cl'[c].op = "delete") =>
                LET id == cl'[c].id
                IN /\ NothingChanged
                   /\ IF ~HasRow(id)
                      THEN cl'[c].pc = "returned" /\ cl'[c].err = ErrNotFound
                      ELSE cl'[c].pc = (IF repo[id].FileKey # <<>> THEN "delete_file"
                                        ELSE "delete_row")
          /\ (cl[c].pc = "delete_file" /\ cl'[c].pc # "delete_file") =>
                /\ cl'[c].pc = "delete_row"
                /\ files' \in {files, files \ {cl[c].arg}}
                /\ UNCHANGED <<repo, nextID, tasks, cancellations, exec>>
          /\ (cl[c].pc = "delete_row" /\ cl'[c].pc # "delete_row") =>
                /\ cl'[c].pc = "returned"
                /\ IF cl[c].ctxDone
                   THEN cl'[c].err = ErrDelete /\ repo' = repo
                   ELSE /\ cl'[c].err = ErrNone
                        /\ repo'[cl[c].id] = NoRow
                        /\ \A other \in IDs \ {cl[c].id} : repo'[other] = repo[other]
                /\ UNCHANGED <<nextID, tasks, cancellations, exec, files>>]_vars

\* a DeleteReport whose file deletion failed has deleted the row and returned
\* nil; the file is still in the storage
C20_Witness ==
    \E c \in Clients :
        /\ cl[c].op = "delete"
        /\ cl[c].pc = "returned"
        /\ cl[c].err = ErrNone
        /\ cl[c].out.file = "delete_failed"
        /\ ~HasRow(cl[c].id)
        /\ <<"reports/", cl[c].id>> \in files


\* C21: DeleteReport cancels any in-flight generation of the report: when a
\* generation task for the report is registered in the processor as
\* DeleteReport runs, the context of that task is cancelled by the call, and
\* once DeleteReport has returned nil no file is saved for the deleted report.
C21_DeleteCancelsGeneration ==
    [][\A c \in Clients :
          /\ (/\ cl[c].pc = "idle"
              /\ cl'[c].op = "delete"
              /\ HasRow(cl'[c].id)
              /\ CancelTaskFinds(<<"report_", cl'[c].id>>)) =>
                 exec'[cancellations[<<"report_", cl'[c].id>>]].ctxDone
          /\ (cl[c].op = "delete" /\ cl[c].pc = "returned" /\ cl[c].err = ErrNone) =>
                 (<<"reports/", cl[c].id>> \in files' => <<"reports/", cl[c].id>> \in files)]_vars



\* C22: scenario C: DeleteReport on a completed report with a non-empty file
\* key calls the storage's Delete with exactly that key and removes the row;
\* when that Delete succeeded and the call returned nil, the report can no
\* longer be fetched and the storage has no file under the key.
C22_ScenarioC ==
    /\ [][\A c \in Clients :
             /\ (/\ cl[c].pc = "idle"
                 /\ cl'[c].op = "delete"
                 /\ HasRow(cl'[c].id)
                 /\ repo[cl'[c].id].Status = StatusCompleted
                 /\ repo[cl'[c].id].FileKey # <<>>) =>
                    /\ cl'[c].pc = "delete_file"
                    /\ cl'[c].arg = repo[cl'[c].id].FileKey
             /\ (cl[c].pc = "delete_file" /\ cl'[c].pc # "delete_file") =>
                    /\ cl[c].arg = cl[c].out.key
                    /\ files' \in {files, files \ {cl[c].out.key}}
                    /\ cl'[c].out.file = "deleted" => cl[c].out.key \notin files'
             /\ (/\ cl[c].pc = "delete_row"
                 /\ cl'[c].pc # "delete_row"
                 /\ cl[c].out.status = StatusCompleted
                 /\ cl[c].out.key # <<>>
                 /\ ~cl[c].ctxDone) =>
                    /\ cl'[c].pc = "returned"
                    /\ cl'[c].err = ErrNone
                    /\ repo'[cl[c].id] = NoRow]_vars
    /\ [](\A c \in Clients :
             (/\ cl[c].op = "delete"
              /\ cl[c].pc = "returned"
              /\ cl[c].err = ErrNone
              /\ cl[c].out.status = StatusCompleted
              /\ cl[c].out.file = "deleted") =>
                 /\ ~HasRow(cl[c].id)
                 /\ cl[c].out.key \notin files)

\* a DeleteReport of a completed report with its file returned nil: the row
\* and the file are gone
C22_Witness ==
    \E c \in Clients :
        /\ cl[c].op = "delete"
        /\ cl[c].pc = "returned"
        /\ cl[c].err = ErrNone
        /\ cl[c].out.status = StatusCompleted
        /\ cl[c].out.key = <<"reports/", cl[c].id>>
        /\ cl[c].out.file = "deleted"
        /\ ~HasRow(cl[c].id)
        /\ <<"reports/", cl[c].id>> \notin files


\* C23: GetReportFile(id) fails with not-found when the report does not
\* exist, with not-ready when the status is not completed (a stale file key
\* does not matter), with file-missing when the status is completed and the
\* file key is empty, and reads from the storage only otherwise: in the three
\* failing cases the call returns without a storage call.
C23_GetReportFile ==
    [][\A c \in Clients :
          /\ (cl[c].pc = "idle" /\ cl'[c].op = "get_file") =>
                LET id == cl'[c].id
                IN /\ NothingChanged
                   /\ IF ~HasRow(id)
                      THEN cl'[c].pc = "returned" /\ cl'[c].err = ErrNotFound
                      ELSE IF repo[id].Status # StatusCompleted
                      THEN cl'[c].pc = "returned" /\ cl'[c].err = ErrNotReady
                      ELSE IF repo[id].FileKey = <<>>
                      THEN cl'[c].pc = "returned" /\ cl'[c].err = ErrFileMissing
                      ELSE cl'[c].pc = "get_file" /\ cl'[c].arg = repo[id].FileKey
          /\ (cl[c].pc = "get_file" /\ cl'[c].pc # "get_file") =>
                /\ NothingChanged
                /\ cl'[c].pc = "returned"
                /\ cl'[c].err \in {ErrNone, ErrGetFile}
                /\ cl'[c].err = ErrNone =>
                      cl'[c].out.reader = cl[c].arg /\ cl[c].arg \in files]_vars

\* GetReportFile returned not-ready for a canceled report that has a stale
\* file key whose file is in the storage
C23_Witness ==
    \E c \in Clients :
        /\ cl[c].op = "get_file"
        /\ cl[c].pc = "returned"
        /\ cl[c].err = ErrNotReady
        /\ cl[c].out.status = StatusCanceled
        /\ cl[c].out.key = <<"reports/", cl[c].id>>
        /\ cl[c].out.key \in files


\* C24: UpdateReport with a status in the patch checks the change against the
\* transition table, from the status the report has, before writing: when the
\* edge is not allowed it returns an error and nothing is written, no field of
\* the patch is applied; when it is allowed the status is written together
\* with the other fields of the patch.
C24_UpdateReportValidatesStatus ==
    /\ [](\A c \in Clients, id \in IDs, p \in PatchParameters :
          \A st \in UpdateStatuses \ {"none"} :
             (cl[c].pc = "idle" /\ HasRow(id)) =>
                IF <<repo[id].Status, st>> \in TransitionTable
                THEN /\ ENABLED (/\ UpdateReport(c, id, st, p)
                                 /\ cl'[c].pc = "update_write"
                                 /\ repo' = repo)
                     /\ ~ENABLED (UpdateReport(c, id, st, p) /\ cl'[c].pc = "returned")
                ELSE /\ ENABLED (/\ UpdateReport(c, id, st, p)
                                 /\ cl'[c].pc = "returned"
                                 /\ cl'[c].err = ErrInvalidTransition
                                 /\ repo' = repo)
                     /\ ~ENABLED (UpdateReport(c, id, st, p) /\ cl'[c].pc # "returned"))
    /\ [][\A c \in Clients :
             /\ (cl[c].op = "update" /\ cl[c].pc = "returned") => repo' = repo
             /\ (/\ cl[c].pc = "update_write"
                 /\ cl'[c].pc # "update_write"
                 /\ ~cl[c].ctxDone
                 /\ HasRow(cl[c].id)) =>
                    LET id == cl[c].id
                    IN /\ cl'[c].pc = "returned"
                       /\ cl'[c].err = ErrNone
                       /\ repo'[id].Status =
                             (IF cl[c].arg # "none" THEN cl[c].arg ELSE repo[id].Status)
                       /\ repo'[id].Parameters =
                             (IF cl[c].parameters # <<>> THEN cl[c].parameters[1]
                              ELSE repo[id].Parameters)
                       /\ repo'[id].FileKey = repo[id].FileKey
                       /\ repo'[id].GeneratedAt = repo[id].GeneratedAt
                       /\ \A other \in IDs \ {id} : repo'[other] = repo[other]]_vars

\* an UpdateReport that canceled a report and patched its parameters has
\* returned nil: the row has the new status and the new parameters
C24_Witness ==
    \E c \in Clients :
        /\ cl[c].op = "update"
        /\ cl[c].pc = "returned"
        /\ cl[c].err = ErrNone
        /\ cl[c].parameters = <<"{k:1}">>
        /\ HasRow(cl[c].id)
        /\ repo[cl[c].id].Status = StatusCanceled
        /\ repo[cl[c].id].FileKey = <<>>
        /\ repo[cl[c].id].Parameters = "{k:1}"



\* C25: an UpdateReport that moves a report into canceled triggers task
\* cancellation: when a generation task of the report is running in the
\* processor, its context is cancelled by the update.
C25_UpdateToCanceledCancelsTask ==
    [][\A c \in Clients :
          (/\ cl[c].pc = "idle"
           /\ cl'[c].op = "update"
           /\ cl'[c].pc = "update_write"
           /\ cl'[c].arg = StatusCanceled
           /\ CancelTaskFinds(<<"report_", cl'[c].id>>)) =>
              exec'[cancellations[<<"report_", cl'[c].id>>]].ctxDone]_vars


\* C26: in every state of the table the file key of a report is non-empty
\* exactly when its status is completed; in particular a completed report
\* has a file key, whichever operation wrote completed.
C26_FileKeyIffCompleted ==
    \A id \in IDs :
        HasRow(id) => (repo[id].FileKey # <<>> <=> repo[id].Status = StatusCompleted)



\* the storage was built by StorageBuilder
Built == mw.storage.layers[1] # "retry"

\* s is a prefix of t
IsPrefix(s, t) == Len(s) <= Len(t) /\ \A i \in 1..Len(s) : s[i] = t[i]

\* C27: the storage StorageBuilder builds wraps the backend in the order
\* logging, retry, validation, backend from the outermost layer inwards: a
\* call reaches the logging layer first, then the retry layer, then the
\* validation layer, so that a key the validation rejects has been seen by
\* the outer layers and is validated again in every retry attempt.
C27_ChainOrder ==
    Built =>
       /\ \E b \in Backends : IsPrefix(mw.entered, <<"logging", "retry", "validation", b>>)
       /\ (mw.pc = "returned" /\ mw.err = ErrEmptyKey /\ mw.op \in RetriedOps) =>
              /\ mw.logs = mw.validations
              /\ mw.validations = mw.storage.maxRetries + 1


\* the backend of the storage
Backend == mw.storage.layers[Len(mw.storage.layers)]

\* C28: the validation middleware applies the backend's ValidateKey to every
\* operation that takes a key, before it delegates: for a key the backend's
\* ValidateKey rejects (empty, containing ".." on the local backend, longer
\* than 1024 on the object store) the operation returns the validation error
\* and the backend operation is not invoked.
C28_ValidationUsesBackendValidateKey ==
    (/\ Built
     /\ mw.pc # "idle"
     /\ mw.op # "List"
     /\ \/ Backend_ValidateKey(Backend, mw.key) # StorageNil
        \/ mw.op \in TwoKeyOps /\ Backend_ValidateKey(Backend, mw.key2) # StorageNil) =>
        /\ mw.calls = 0
        /\ mw.pc = "returned" =>
              mw.err \in {Backend_ValidateKey(Backend, mw.key),
                          Backend_ValidateKey(Backend, mw.key2)} \ {StorageNil}


\* a call of a retried operation that reached the retry layer has returned,
\* and its context was not cancelled
RetriedReturned ==
    /\ mw.pc = "returned"
    /\ mw.op \in RetriedOps
    /\ \E i \in 1..Len(mw.entered) : mw.entered[i] = "retry"
    /\ ~mw.ctxDone

\* C29: with maxRetries >= 0 and no cancellation, a Save, Get or Delete whose
\* backend call fails the first n <= maxRetries times and then succeeds
\* returns nil after exactly n + 1 backend invocations; one whose backend
\* call fails every time returns the last backend error after exactly
\* maxRetries + 1 invocations; there is a delay between two attempts and none
\* after the last.
C29_RetryAttempts ==
    /\ mw.calls <= mw.delays + 1
    /\ (RetriedReturned /\ mw.storage.maxRetries >= 0) =>
          /\ IF /\ mw.n <= mw.storage.maxRetries
                /\ ~Backend_Fails(Backend, mw.op, mw.key, mw.key2, mw.storeAtCall)
             THEN mw.err = StorageNil /\ mw.calls = mw.n + 1
             ELSE /\ mw.err = BackendError(mw.storage.maxRetries + 1)
                  /\ mw.calls = mw.storage.maxRetries + 1
          /\ mw.delays = mw.calls - 1

\* a Save on a storage with the default three retries whose backend failed
\* every time has returned the fourth error, after three delays
C29_Witness ==
    /\ RetriedReturned
    /\ mw.op = "Save"
    /\ mw.storage.maxRetries = 3
    /\ mw.n = 4
    /\ mw.calls = 4
    /\ mw.delays = 3
    /\ mw.err = BackendError(4)


\* C30: when the context of a retried Save, Get or Delete is cancelled while
\* the retry middleware waits between two attempts, the call returns the
\* cancellation error of the context, not the last backend error, and the
\* backend is not invoked again.
C30_CancelDuringDelay ==
    /\ (mw.pc # "idle" /\ mw.canceledIn = "select") => mw.calls = mw.callsAtCancel
    /\ (mw.pc = "returned" /\ mw.canceledIn = "select") => mw.err = ErrCtx

\* a Get that failed twice was cancelled in the second delay and returned the
\* context's error with a retry left
C30_Witness ==
    /\ mw.pc = "returned"
    /\ mw.op = "Get"
    /\ mw.canceledIn = "select"
    /\ mw.err = ErrCtx
    /\ mw.calls = 2
    /\ mw.n > 2
    /\ mw.storage.maxRetries = 3



\* C34: a SetStatus call that fails, because the status is not recognized or
\* because the transition is not in the table, leaves the report as it was:
\* status, updatedBy, updatedAt and generatedAt keep their values.
C34_FailedSetStatusChangesNothing ==
    (setStatusCall # NoCall /\ setStatusCall.err # ErrNone) =>
        /\ entity.Status = setStatusCall.before.Status
        /\ entity.UpdatedBy = setStatusCall.before.UpdatedBy
        /\ entity.UpdatedAt = setStatusCall.before.UpdatedAt
        /\ entity.GeneratedAt = setStatusCall.before.GeneratedAt

\* a completed report, generated at an earlier time by one actor, refused a
\* recognized status given later by another actor
C34_Witness ==
    /\ setStatusCall # NoCall
    /\ setStatusCall.err = ErrInvalidTransition
    /\ setStatusCall.before.Status = StatusCompleted
    /\ setStatusCall.before.GeneratedAt # 0
    /\ setStatusCall.at > setStatusCall.before.UpdatedAt
    /\ TrimSpace(setStatusCall.updatedBy) # setStatusCall.before.UpdatedBy


\* the storage is a logging middleware put directly on a backend
LoggingOnBackend == Len(mw.storage.layers) = 2 /\ mw.storage.layers[1] = "logging"

\* C31: the logging middleware is transparent.  When control passes through
\* the logging layer into the storage it wraps, the operation and the keys
\* are the ones it was called with; when control comes back through it, the
\* error and the value are the ones the wrapped storage returned and the files
\* are untouched, on success and on failure; and a call on a logging
\* middleware that wraps a backend invokes the backend exactly once.
C31_LoggingTransparent ==
    /\ [](LoggingOnBackend /\ mw.pc = "returned" /\ mw.op \in Ops => mw.calls = 1)
    /\ [][(mw.pc \in {"enter", "leave"} /\ Layer = "logging" /\ mw'.depth # mw.depth) =>
             /\ mw'.op = mw.op /\ mw'.key = mw.key /\ mw'.key2 = mw.key2
             /\ mw'.calls = mw.calls /\ mw'.store = mw.store /\ mw'.pos = mw.pos
             /\ IF mw.pc = "enter"
                THEN mw'.depth = mw.depth + 1 /\ mw'.pc = "enter"
                ELSE /\ mw'.depth = mw.depth - 1
                     /\ mw'.err = mw.err
                     /\ mw'.val = mw.val]_vars

\* a Get through a logging middleware on the local backend failed once in the
\* backend and returned that error, after a Save had stored the whole content
C31_Witness ==
    /\ LoggingOnBackend
    /\ mw.pc = "returned"
    /\ mw.op = "Get"
    /\ mw.err = BackendError(1)
    /\ mw.logs = 1
    /\ KeyValid \in DOMAIN mw.store


\* the key has two dots next to each other somewhere
HasParentSegment(key) == \E i \in 1..(Len(key) - 1) : SubSeq(key, i, i + 1) = <<".", ".">>

\* C32: ValidateKey rejects the empty key on both backends; the local backend
\* rejects every key containing ".." and accepts the other non-empty keys,
\* whatever their length; the object-store backend rejects the keys longer
\* than 1024 characters and accepts the non-empty keys of length up to and
\* including 1024, with ".." or not.
C32_ValidateKey ==
    (mw.pc = "returned" /\ mw.op = "ValidateKey") =>
        /\ mw.key = <<>> => mw.err = ErrEmptyKey
        /\ (Backend = "local" /\ mw.key # <<>>) =>
              mw.err = IF HasParentSegment(mw.key) THEN ErrDotDotKey ELSE StorageNil
        /\ (Backend = "s3" /\ mw.key # <<>>) =>
              mw.err = IF Len(mw.key) > 1024 THEN ErrKeyTooLong ELSE StorageNil

\* the object store was asked about a key of exactly 1024 characters and
\* accepted it
C32_Witness ==
    /\ mw.pc = "returned"
    /\ mw.op = "ValidateKey"
    /\ Backend = "s3"
    /\ Len(mw.key) = 1024
    /\ mw.err = StorageNil


\* C33: Delete is idempotent on every backend: a Delete of a key that is not
\* empty and has no file, which the network and the disk do not let fail,
\* returns nil and leaves the files as they were, so that a second Delete(k)
\* after a first gives the same files and no error.
C33_DeleteIdempotent ==
    (/\ mw.pc = "returned"
     /\ mw.op = "Delete"
     /\ mw.n = 0
     /\ mw.key # <<>>
     /\ mw.key \notin DOMAIN mw.storeAtCall) =>
        /\ mw.err = StorageNil
        /\ mw.store = mw.storeAtCall


\* C39: for every maxRetries, zero and the negative values included, a Save,
\* Get or Delete that reached the retry middleware and returned has invoked
\* the backend at least once, and it returned nil only if an invocation of the
\* backend succeeded (one after the n that fail).
C39_RetryInvokesBackend ==
    (/\ mw.pc = "returned"
     /\ mw.op \in RetriedOps
     /\ \E i \in 1..Len(mw.entered) : mw.entered[i] = "retry") =>
        /\ mw.calls >= 1
        /\ mw.err = StorageNil => mw.calls > mw.n


\* C40: when a Save through the retry middleware failed in an attempt and
\* succeeded in a later one, the content stored under the key is the complete
\* content of the stream the caller passed, whatever the failed attempts had
\* read of it.
C40_RetriedSaveStoresWholeStream ==
    (/\ mw.pc = "returned"
     /\ mw.op = "Save"
     /\ \E i \in 1..Len(mw.entered) : mw.entered[i] = "retry"
     /\ mw.calls >= 2
     /\ mw.err = StorageNil) =>
        /\ mw.key \in DOMAIN mw.store
        /\ mw.store[mw.key] = Stream


\* C35: retry after reset: when UpdateReport moves a failed or canceled report
\* back to pending, a generation task for that report is submitted, so that
\* once the call has written pending a task for the report is queued or
\* running.
C35_ResetSubmitsTask ==
    [][\A c \in Clients :
          (/\ cl[c].op = "update"
           /\ cl[c].pc = "update_write"
           /\ cl'[c].pc = "returned"
           /\ cl'[c].err = ErrNone
           /\ HasRow(cl[c].id)
           /\ repo[cl[c].id].Status \in {StatusFailed, StatusCanceled}
           /\ repo'[cl[c].id].Status = StatusPending) =>
              \/ \E i \in 1..Len(tasks') : tasks'[i].Data = cl[c].id
              \/ exec'[cl[c].id].pc \notin {"none", "done"}]_vars


\* C36: no report is stuck in processing: when the context of a generation
\* task has expired or was cancelled while its executor was running, and no
\* service call writes the status, the execution does not end with the report
\* in processing; its failure handling has moved the report to failed.
C36_ExpiredExecutionLeavesProcessing ==
    [][\A id \in IDs :
          (/\ exec[id].pc = "cleanup"
           /\ exec[id].ctxDone
           /\ exec'[id].pc = "done"
           /\ exec[id].task.Type = "report_generation"
           /\ HasRow(id)) =>
              repo'[id].Status # StatusProcessing]_vars


C38_RegistryKeepsEntryWhileRunning ==
    \A e \in IDs : Executing(e) => exec[e].task.ID \in DOMAIN cancellations

====
